---------------------------- MODULE Spec2Model ----------------------------
(***************************************************************************)
(* Model of the comparison engine of Detection-for-BPC-BDS:                *)
(*   - Report and its combine operator          (detection/abstract_scan)  *)
(*   - ComparableEntity.compare_parts           (detection/abstract_scan)  *)
(*   - the Java entity comparators              (detection/java_scan)      *)
(*   - the scheduler parallel_compare_projects  (detection/parallelization)*)
(* Four specifications share the variables; each holds the variables of    *)
(* the others at their idle values.                                        *)
(***************************************************************************)
EXTENDS Integers, Sequences, FiniteSets, TLC

VARIABLES
    pc,                  \* position of the operation under study
    fast_scan,           \* the fast_scan flag handed to compare
    skip_threshold,      \* detection.thresholds.skip_attr_list_threshold, in percent
    rep_self,            \* Report.__add__: self
    rep_other,           \* Report.__add__: other
    rep_sum,             \* Report.__add__: <<>> or <<the returned report>>
    self_attr_val,       \* compare_parts: the list read from self
    other_attr_val,      \* compare_parts: the list read from other
    matrix,              \* compare_parts: pool of cross-compare reports
    self_unused_vals,    \* compare_parts: set of unmatched left elements
    other_unused_vals,   \* compare_parts: set of unmatched right elements
    report,              \* compare_parts: the accumulated report
    committed,           \* compare_parts: the max_report of every loop iteration
    unused_reports,      \* compare_parts: the reports added for unused values
    cp_self,             \* compare_parts: self
    cp_other,            \* compare_parts: other
    attr_kind,           \* compare_parts: what getattr(self, attr) holds
    first_project,       \* Project.compare: self
    other_project,       \* Project.compare: other
    res_full,            \* <<>> or <<first.compare(other, False)>>
    res_fast,            \* <<>> or <<first.compare(other, True)>>
    res_swapped,         \* <<>> or <<other.compare(first, fast_scan)>>
    projects,            \* parallel_compare_projects: the input list
    cpu_count,           \* parallel_compare_projects: size of the pool
    raising,             \* the pairs whose comparison raises in the worker
    projects_by_types,   \* the dict of _project_list_to_dict, in key order
    total_comparisons_needed,
    type_idx,            \* position of the loop over projects_by_types
    iterable_of_tuples,  \* the pairs handed to pool.imap for this type
    chunk_size,
    chunk_pos,           \* per chunk: the tasks of it a worker has run
    chunk_raised,        \* the chunks whose worker raised
    running,             \* the chunks whose worker is inside compare
    collected,           \* chunks whose results imap has yielded
    reports,             \* parallel_compare_projects: the list returned
    queue,               \* qsize() of the progress queue
    timer,               \* the _print_progress process
    handed,              \* every pair handed to a worker, in order
    ent_kind,            \* compare on two entities: their class
    ent_self,            \* <<self>>
    ent_other,           \* <<other>>
    ent_parts,           \* the reports compare accumulated, in order
    ent_report,          \* <<>> or <<self.compare(other, fast_scan)>>
    args,                \* main: the parsed command line
    environ,             \* main: what load_dotenv puts in the environment
    calls,               \* main: the functions it invoked, in order
    unit,                \* all_blocks: <<the class or file whose methods are scanned>>
    cached_all_blocks,   \* all_blocks: per method, <<>> or <<its cached all_blocks>>
    self_methods,        \* self.methods of a JavaClass, by method identity
    other_methods,       \* other.methods
    unused_order,        \* the order the sets of unused methods were iterated in
    methods_report,      \* <<>> or <<compare_parts(other, methods)>>
    project_classes,     \* JavaProject.classes: the classes of the loaded files
    user_types,          \* JavaProject.user_types, per key the list resolved for it
    resolve_idx,         \* position of the loop over user_types.keys()
    stack                \* the calls of get_non_user_defined_types in progress

reportVars == <<rep_self, rep_other, rep_sum>>
partsVars == <<self_attr_val, other_attr_val, matrix, self_unused_vals,
               other_unused_vals, report, committed, unused_reports,
               cp_self, cp_other, attr_kind>>
compareVars == <<first_project, other_project, res_full, res_fast,
                 res_swapped>>
schedVars == <<projects, cpu_count, raising, projects_by_types,
               total_comparisons_needed, type_idx, iterable_of_tuples,
               chunk_size, chunk_pos, chunk_raised, running, collected,
               reports, queue, timer, handed>>

entityVars == <<ent_kind, ent_self, ent_other, ent_parts, ent_report>>

mainVars == <<args, environ, calls>>

blocksVars == <<unit, cached_all_blocks>>

classVars == <<self_methods, other_methods, unused_order, methods_report>>

typesVars == <<project_classes, user_types, resolve_idx, stack>>

vars == <<pc, fast_scan, skip_threshold, reportVars, partsVars, compareVars,
          schedVars, entityVars, mainVars, blocksVars, classVars,
          typesVars>>

IdleReport ==
    /\ rep_self = <<>>
    /\ rep_other = <<>>
    /\ rep_sum = <<>>

IdleParts ==
    /\ self_attr_val = <<>>
    /\ other_attr_val = <<>>
    /\ matrix = <<>>
    /\ self_unused_vals = {}
    /\ other_unused_vals = {}
    /\ report = <<>>
    /\ committed = <<>>
    /\ unused_reports = <<>>
    /\ cp_self = <<>>
    /\ cp_other = <<>>
    /\ attr_kind = "idle"

IdleCompare ==
    /\ first_project = <<>>
    /\ other_project = <<>>
    /\ res_full = <<>>
    /\ res_fast = <<>>
    /\ res_swapped = <<>>

IdleEntity ==
    /\ ent_kind = "idle"
    /\ ent_self = <<>>
    /\ ent_other = <<>>
    /\ ent_parts = <<>>
    /\ ent_report = <<>>

IdleTypes ==
    /\ project_classes = <<>>
    /\ user_types = <<>>
    /\ resolve_idx = <<>>
    /\ stack = <<>>

IdleClass ==
    /\ self_methods = <<>>
    /\ other_methods = <<>>
    /\ unused_order = <<>>
    /\ methods_report = <<>>

IdleBlocks ==
    /\ unit = <<>>
    /\ cached_all_blocks = <<>>

IdleMain ==
    /\ args = <<>>
    /\ environ = <<>>
    /\ calls = <<>>

IdleSched ==
    /\ projects = <<>>
    /\ cpu_count = 0
    /\ raising = {}
    /\ projects_by_types = <<>>
    /\ total_comparisons_needed = 0
    /\ type_idx = 0
    /\ iterable_of_tuples = <<>>
    /\ chunk_size = 0
    /\ chunk_pos = <<>>
    /\ chunk_raised = {}
    /\ running = {}
    /\ collected = 0
    /\ reports = <<>>
    /\ queue = 0
    /\ timer = "idle"
    /\ handed = <<>>

(***************************************************************************)
(* Entities.  A report refers to the two entities it compares; combine and *)
(* compare_parts read only an entity's class, its identity and its         *)
(* visualise flag.                                                         *)
(***************************************************************************)
Entity(variant, id, visualise) ==
    [variant |-> variant, id |-> id, visualise |-> visualise]

\* NotFound(): a fresh sentinel, name "NOT FOUND", visualise False.
NotFound == Entity("NotFound", 0, FALSE)

(***************************************************************************)
(* Report                                                                  *)
(***************************************************************************)
Report(probability, weight, first, second) ==
    [probability |-> probability, weight |-> weight,
     first |-> first, second |-> second, child_reports |-> <<>>]

\* Report.__lt__: by probability, ties by weight.
ReportLt(a, b) ==
    IF a.probability # b.probability
    THEN a.probability < b.probability
    ELSE a.weight < b.weight

\* Report.__eq__
ReportEq(a, b) == a.probability = b.probability /\ a.weight = b.weight

\* functools.total_ordering derives __gt__ from __lt__ and __eq__.
ReportGt(a, b) == ~ReportLt(a, b) /\ ~ReportEq(a, b)

\* A slip of Report.__add__: the guarded denominator is also the weight.
ReportAddGuardedWeight(a, b) ==
    LET weight == IF a.weight + b.weight = 0 THEN 1 ELSE a.weight + b.weight
        children ==
            IF a.first.variant = b.first.variant
               \/ a.second.variant = b.second.variant
            THEN a.child_reports \o b.child_reports
            ELSE IF b.first.visualise \/ b.second.visualise
                 THEN Append(a.child_reports, b)
                 ELSE a.child_reports
    IN  [probability |-> (a.probability * a.weight + b.probability * b.weight)
                            \div weight,
         weight |-> weight,
         first |-> a.first, second |-> a.second,
         child_reports |-> children]

\* A slip of the arithmetic: the quotient is rounded up.
ReportAddRoundUp(a, b) ==
    LET weight == IF a.weight + b.weight = 0 THEN 1 ELSE a.weight + b.weight
        children ==
            IF a.first.variant = b.first.variant
               \/ a.second.variant = b.second.variant
            THEN a.child_reports \o b.child_reports
            ELSE IF b.first.visualise \/ b.second.visualise
                 THEN Append(a.child_reports, b)
                 ELSE a.child_reports
    IN  [probability |-> (a.probability * a.weight + b.probability * b.weight
                          + weight - 1) \div weight,
         weight |-> a.weight + b.weight,
         first |-> a.first, second |-> a.second,
         child_reports |-> children]

\* A slip of the arithmetic: the plain mean of the two probabilities.
ReportAddPlainMean(a, b) ==
    LET children ==
            IF a.first.variant = b.first.variant
               \/ a.second.variant = b.second.variant
            THEN a.child_reports \o b.child_reports
            ELSE IF b.first.visualise \/ b.second.visualise
                 THEN Append(a.child_reports, b)
                 ELSE a.child_reports
    IN  [probability |-> (a.probability + b.probability) \div 2,
         weight |-> a.weight + b.weight,
         first |-> a.first, second |-> a.second,
         child_reports |-> children]

\* A slip of the children policy: other is appended whatever its entities.
ReportAddAppendAlways(a, b) ==
    LET weight == IF a.weight + b.weight = 0 THEN 1 ELSE a.weight + b.weight
        children ==
            IF a.first.variant = b.first.variant
               \/ a.second.variant = b.second.variant
            THEN a.child_reports \o b.child_reports
            ELSE Append(a.child_reports, b)
    IN  [probability |-> (a.probability * a.weight + b.probability * b.weight)
                            \div weight,
         weight |-> a.weight + b.weight,
         first |-> a.first, second |-> a.second,
         child_reports |-> children]

\* A slip of the arithmetic: the weighted sum is divided by self's weight.
ReportAddSelfWeight(a, b) ==
    LET weight == IF a.weight = 0 THEN 1 ELSE a.weight
        children ==
            IF a.first.variant = b.first.variant
               \/ a.second.variant = b.second.variant
            THEN a.child_reports \o b.child_reports
            ELSE IF b.first.visualise \/ b.second.visualise
                 THEN Append(a.child_reports, b)
                 ELSE a.child_reports
    IN  [probability |-> (a.probability * a.weight + b.probability * b.weight)
                            \div weight,
         weight |-> a.weight + b.weight,
         first |-> a.first, second |-> a.second,
         child_reports |-> children]

\* Report.__add__.  Python's // is floor division; every operand is >= 0, so
\* \div agrees with it.  isinstance(x, type(y)) is equality of the classes:
\* no entity class of the repository that is instantiated subclasses another.
ReportAdd(a, b) ==
    LET weight == IF a.weight + b.weight = 0 THEN 1 ELSE a.weight + b.weight
        children ==
            IF a.first.variant = b.first.variant
               \/ a.second.variant = b.second.variant
            THEN a.child_reports \o b.child_reports
            ELSE IF b.first.visualise \/ b.second.visualise
                 THEN Append(a.child_reports, b)
                 ELSE a.child_reports
    IN  [probability |-> (a.probability * a.weight + b.probability * b.weight)
                            \div weight,
         weight |-> a.weight + b.weight,
         first |-> a.first, second |-> a.second,
         child_reports |-> children]

(***************************************************************************)
(* Specification SpecReport: two reports are drawn, Report.__add__ is      *)
(* applied, and further reports are added to the sum.                      *)
(***************************************************************************)
Probabilities == {0, 1, 33, 50, 67, 99, 100}
Weights == {0, 1, 5, 10, 20}

SampleEntities ==
    { Entity("JavaClass", 1, TRUE), Entity("JavaMethod", 2, TRUE),
      Entity("JavaModifier", 3, FALSE) }

\* Operands of +: leaf reports, and reports that already carry one child.
SampleReports ==
    LET leaves == { Report(p, w, e, e) :
                      p \in Probabilities, w \in Weights, e \in SampleEntities }
        kid == Report(100, 10, Entity("JavaMethod", 2, TRUE),
                               Entity("JavaMethod", 2, TRUE))
    IN  leaves \cup
        { [r EXCEPT !.child_reports = <<kid>>] :
            r \in { Report(p, 10, Entity("JavaClass", 1, TRUE),
                                  Entity("JavaClass", 1, TRUE)) :
                      p \in {0, 100} } }

InitReport ==
    /\ pc = "add"
    /\ fast_scan = FALSE
    /\ skip_threshold = 0
    /\ rep_self \in { <<r>> : r \in SampleReports }
    /\ rep_other \in { <<r>> : r \in SampleReports }
    /\ rep_sum = <<>>
    /\ IdleParts
    /\ IdleCompare
    /\ IdleSched
    /\ IdleEntity
    /\ IdleMain
    /\ IdleBlocks
    /\ IdleClass
    /\ IdleTypes

\* report = self + other
Add ==
    /\ pc = "add"
    /\ rep_sum' = <<ReportAdd(rep_self[1], rep_other[1])>>
    /\ pc' = "added"
    /\ UNCHANGED <<fast_scan, skip_threshold, rep_self, rep_other, partsVars,
                   compareVars, schedVars, entityVars, mainVars, blocksVars, classVars, typesVars>>

\* The reports a running sum goes on to take: report += x
MaxAdds == 2
AccumulatedReports ==
    { Report(p, w, e[1], e[2]) :
        p \in {0, 100}, w \in {0, 10},
        e \in { <<Entity("JavaClass", 1, TRUE), Entity("JavaClass", 1, TRUE)>>,
                <<Entity("JavaMethod", 2, TRUE), NotFound>>,
                <<Entity("JavaModifier", 3, FALSE), NotFound>> } }

\* report += other, on the sum so far.  rep_other and rep_sum keep every
\* right operand and every sum, in order.
AddMore ==
    /\ pc = "added"
    /\ Len(rep_sum) < MaxAdds
    /\ \E other \in AccumulatedReports :
           /\ rep_other' = Append(rep_other, other)
           /\ rep_sum' = Append(rep_sum, ReportAdd(rep_sum[Len(rep_sum)], other))
    /\ UNCHANGED <<pc, fast_scan, skip_threshold, rep_self, partsVars,
                   compareVars, schedVars, entityVars, mainVars, blocksVars, classVars, typesVars>>

NextReport ==
    \/ Add
    \/ AddMore

SpecReport == InitReport /\ [][NextReport]_vars

(***************************************************************************)
(* C10  Report combine arithmetic: a + b has probability                   *)
(* floor((a.probability*a.weight + b.probability*b.weight) / d), where d   *)
(* is a.weight + b.weight, or 1 when that sum is 0; its weight is          *)
(* a.weight + b.weight (not the guarded d); first and second are a's.      *)
(* The floor is stated by its defining inequalities.                       *)
(***************************************************************************)
C10_CombineArithmetic ==
    pc = "added" =>
        LET a == rep_self[1]
            b == rep_other[1]
            s == rep_sum[1]
            num == a.probability * a.weight + b.probability * b.weight
            d == IF a.weight + b.weight = 0 THEN 1 ELSE a.weight + b.weight
        IN  /\ d * s.probability <= num
            /\ num < d * (s.probability + 1)
            /\ s.weight = a.weight + b.weight
            /\ s.first = a.first
            /\ s.second = a.second

\* Two zero-weight reports were added: the guard replaced the denominator,
\* and the weight stayed 0.
C10_Witness ==
    /\ pc = "added"
    /\ rep_self[1].weight = 0
    /\ rep_other[1].weight = 0
    /\ rep_self[1].first # rep_other[1].first
    /\ rep_sum[1].weight = 0

(***************************************************************************)
(* Statement blocks: a block is summarised by its histogram `parts`, a     *)
(* dict node-kind -> count kept in insertion order.                        *)
(***************************************************************************)
\* detection.utils.calculate_score_based_on_numbers: 100 - 100*|a-b|/(a+b),
\* 100 for (0, 0).  Every use accumulates the score with weight-5 or
\* weight-10 reports through //, which floors it.
Score(a, b) ==
    IF a + b = 0 THEN 100
    ELSE LET d == IF a < b THEN b - a ELSE a - b
         IN  (100 * (a + b - d)) \div (a + b)

\* definitions.node_translation_dict; "" stands for None.
node_translation_dict(kind) ==
    CASE kind = "WhileStatement" -> "ForStatement"
      [] kind = "SwitchStatementCase" -> "IfStatement"
      [] kind = "AsyncFunctionDef" -> "FunctionDef"
      [] kind = "Await" -> "Call"
      [] OTHER -> ""

\* dict.get(kind, 0) on a histogram
RECURSIVE Occurrences(_, _)
Occurrences(parts, kind) ==
    IF parts = <<>> THEN 0
    ELSE IF Head(parts).kind = kind THEN Head(parts).n
    ELSE Occurrences(Tail(parts), kind)

\* A slip of the walk: only the kinds the other block has are scored.
BlockPartReportLenient(self_e, other_e, kind, n, other_parts) ==
    LET other_occurrences == Occurrences(other_parts, kind)
    IN  IF other_occurrences > 0
        THEN <<Report(Score(n, other_occurrences), 10, self_e, other_e)>>
        ELSE <<>>

\* A slip of the walk: a kind both blocks have earns only the half credit
\* of a translated kind.
BlockPartReportHalved(self_e, other_e, kind, n, other_parts) ==
    LET other_occurrences == Occurrences(other_parts, kind)
    IN  IF other_occurrences > 0
        THEN <<Report(Score(n, other_occurrences) \div 2, 10, self_e, other_e)>>
        ELSE <<Report(0, 10, self_e, other_e)>>

\* The body of the loop of AbstractStatementBlock.compare for one node kind
\* of self.parts: <<>> when nothing is added, else <<the report added>>.
BlockPartReport(self_e, other_e, kind, n, other_parts) ==
    LET other_occurrences == Occurrences(other_parts, kind)
        backup_node_type == node_translation_dict(kind)
    IN  IF other_occurrences > 0
        THEN <<Report(Score(n, other_occurrences), 10, self_e, other_e)>>
        ELSE IF backup_node_type # ""
             THEN IF Occurrences(other_parts, backup_node_type) > 0
                  THEN <<Report(Score(n, Occurrences(other_parts,
                                                     backup_node_type))
                                    \div 2,
                                10, self_e, other_e)>>
                  ELSE <<>>
             ELSE <<Report(0, 10, self_e, other_e)>>

RECURSIVE BlockWalk(_, _, _, _, _)
BlockWalk(rep, self_e, other_e, parts, other_parts) ==
    IF parts = <<>> THEN rep
    ELSE LET add == BlockPartReport(self_e, other_e, Head(parts).kind,
                                    Head(parts).n, other_parts)
         IN  BlockWalk(IF add = <<>> THEN rep ELSE ReportAdd(rep, add[1]),
                       self_e, other_e, Tail(parts), other_parts)

\* AbstractStatementBlock.compare
StatementBlockCompare(self_e, self_parts, other_e, other_parts) ==
    BlockWalk(Report(0, 0, self_e, other_e), self_e, other_e,
              self_parts, other_parts)

Part(kind, n) == [kind |-> kind, n |-> n]

\* The statement blocks the model draws from, by block identity.
BlockPool ==
    << <<Part("IfStatement", 1)>>,
       <<Part("IfStatement", 2), Part("ReturnStatement", 1)>>,
       <<Part("WhileStatement", 1)>>,
       <<Part("ForStatement", 1), Part("IfStatement", 1)>> >>

BlockIds == 1..Len(BlockPool)

BlockEntity(id) == Entity("JavaStatementBlock", id, FALSE)

\* self_val.compare(other_val, fast_scan) for two statement blocks
BlockCompare(self_id, other_id) ==
    StatementBlockCompare(BlockEntity(self_id), BlockPool[self_id],
                          BlockEntity(other_id), BlockPool[other_id])

(***************************************************************************)
(* ComparableEntity.compare_parts, one step per loop iteration.            *)
(***************************************************************************)
\* Longest collection the model draws.
MaxLen == 2

SeqsUpTo(S, n) == UNION { [1..k -> S] : k \in 0..n }

\* Candidate values of detection.thresholds.skip_attr_list_threshold, in
\* percent.
SkipThresholds == {25, 50}

AbsDiff(a, b) == IF a < b THEN b - a ELSE a - b

\* A slip of the gate: the comparison reversed.
SkipAttrListReversed(fast, threshold, self_len, other_len) ==
    /\ fast
    /\ 10000 * AbsDiff(self_len, other_len)
         < (100 - threshold) * (100 - threshold) * (self_len + other_len)

\* fast_scan and 1 - sqrt(|len(a) - len(b)| / (len(a) + len(b))) < threshold,
\* for a threshold of t percent: sqrt(d/s) > (100 - t)/100, squared.
SkipAttrList(fast, threshold, self_len, other_len) ==
    /\ fast
    /\ 10000 * AbsDiff(self_len, other_len)
         > (100 - threshold) * (100 - threshold) * (self_len + other_len)

Range(seq) == { seq[i] : i \in 1..Len(seq) }

\* matrix.extend(self_val.compare(other_val, fast_scan) ...), row by row
RECURSIVE BuildMatrix(_, _, _, _)
BuildMatrix(self_vals, other_vals, i, j) ==
    IF i > Len(self_vals) THEN <<>>
    ELSE IF j > Len(other_vals) THEN BuildMatrix(self_vals, other_vals, i + 1, 1)
    ELSE <<BlockCompare(self_vals[i], other_vals[j])>>
         \o BuildMatrix(self_vals, other_vals, i, j + 1)

\* A slip of max: the last maximum is kept instead of the first.
RECURSIVE MaxFromLast(_, _, _)
MaxFromLast(m, i, best) ==
    IF i > Len(m) THEN best
    ELSE MaxFromLast(m, i + 1, IF ~ReportLt(m[i], best) THEN m[i] ELSE best)

\* max(matrix): the first element no later one is greater than.
RECURSIVE MaxFrom(_, _, _)
MaxFrom(m, i, best) ==
    IF i > Len(m) THEN best
    ELSE MaxFrom(m, i + 1, IF ReportGt(m[i], best) THEN m[i] ELSE best)

MaxReport(m) == MaxFrom(m, 2, m[1])

\* A slip of the filter: only the reports of the same left element go.
FilterMatrixFirstOnly(m, max_report) ==
    SelectSeq(m, LAMBDA x : ~(max_report.first = x.first))

\* The filter of the pool after a commit.
FilterMatrix(m, max_report) ==
    SelectSeq(m, LAMBDA x : ~(max_report.second = x.second
                              \/ max_report.first = x.first))

\* A slip of the penalty: unmatched elements of the right side cost nothing.
UnusedReportLeftOnly(side, unused) ==
    IF side = "self"
    THEN Report(0, 10, unused, NotFound)
    ELSE Report(0, 0, NotFound, unused)

\* A slip of the penalty: the sentinel always takes the second place.
UnusedReportSentinelSecond(side, unused) == Report(0, 10, unused, NotFound)

\* Report(0, 10, unused, NotFound()) / Report(0, 10, NotFound(), unused)
UnusedReport(side, unused) ==
    IF side = "self"
    THEN Report(0, 10, unused, NotFound)
    ELSE Report(0, 10, NotFound, unused)

Containers == { Entity("JavaMethod", 101, TRUE), Entity("JavaClass", 102, TRUE) }

InitParts ==
    /\ pc = "call"
    /\ fast_scan \in BOOLEAN
    /\ skip_threshold \in SkipThresholds
    /\ IdleReport
    /\ IdleCompare
    /\ IdleSched
    /\ IdleEntity
    /\ IdleMain
    /\ IdleBlocks
    /\ IdleClass
    /\ IdleTypes
    /\ cp_self = <<Entity("JavaMethod", 100, TRUE)>>
    /\ cp_other \in { <<c>> : c \in Containers }
    /\ attr_kind \in {"list", "entity", "none", "unsupported"}
    /\ self_attr_val \in SeqsUpTo(BlockIds, MaxLen)
    /\ other_attr_val \in SeqsUpTo(BlockIds, MaxLen)
    /\ attr_kind = "entity" => Len(self_attr_val) = 1 /\ Len(other_attr_val) = 1
    /\ attr_kind \in {"none", "unsupported"} =>
           self_attr_val = <<>> /\ other_attr_val = <<>>
    /\ cp_other[1].variant # cp_self[1].variant => attr_kind = "list"
    /\ matrix = <<>>
    /\ self_unused_vals = {}
    /\ other_unused_vals = {}
    /\ report = <<>>
    /\ committed = <<>>
    /\ unused_reports = <<>>

frameParts == <<fast_scan, skip_threshold, reportVars, compareVars, schedVars,
                entityVars, mainVars, blocksVars, classVars, typesVars,
                self_attr_val, other_attr_val, cp_self, cp_other, attr_kind>>

\* A slip of the guard: every other is taken for an instance of type(self).
SameVariantUnchecked == TRUE

\* isinstance(other, type(self)); no entity class subclasses another
SameVariant == cp_other[1].variant = cp_self[1].variant

\* if not isinstance(other, type(self)): raise TypeError
RaiseTypeError ==
    /\ pc = "call"
    /\ ~SameVariant
    /\ pc' = "TypeError"
    /\ UNCHANGED <<frameParts, matrix, self_unused_vals, other_unused_vals,
                   report, committed, unused_reports>>

\* if self_attr_val is None: raise ValueError
RaiseNoAttribute ==
    /\ pc = "call"
    /\ SameVariant
    /\ attr_kind = "none"
    /\ pc' = "ValueError"
    /\ UNCHANGED <<frameParts, matrix, self_unused_vals, other_unused_vals,
                   report, committed, unused_reports>>

\* else: raise ValueError (neither a list nor an entity)
RaiseUnsupported ==
    /\ pc = "call"
    /\ SameVariant
    /\ attr_kind = "unsupported"
    /\ pc' = "ValueError"
    /\ UNCHANGED <<frameParts, matrix, self_unused_vals, other_unused_vals,
                   report, committed, unused_reports>>

\* elif isinstance(self_attr_val, ComparableEntity): report += its compare
CompareSingle ==
    /\ pc = "call"
    /\ SameVariant
    /\ attr_kind = "entity"
    /\ report' = <<ReportAdd(Report(0, 0, cp_self[1], cp_other[1]),
                             BlockCompare(self_attr_val[1], other_attr_val[1]))>>
    /\ pc' = "single"
    /\ UNCHANGED <<frameParts, matrix, self_unused_vals, other_unused_vals,
                   committed, unused_reports>>

\* A slip of the short circuit: the elements of the non-empty side are
\* charged as unmatched before the return.
ReturnEmptyPenalised ==
    /\ pc = "call"
    /\ SameVariant
    /\ attr_kind = "list"
    /\ self_attr_val = <<>> \/ other_attr_val = <<>>
    /\ report' = <<Report(0, 10 * (Len(self_attr_val) + Len(other_attr_val)),
                          cp_self[1], cp_other[1])>>
    /\ pc' = "empty"
    /\ UNCHANGED <<frameParts, matrix, self_unused_vals, other_unused_vals,
                   committed, unused_reports>>

\* if not self_attr_val or not other_attr_val: return Report(0, 0, self, other)
ReturnEmpty ==
    /\ pc = "call"
    /\ SameVariant
    /\ attr_kind = "list"
    /\ self_attr_val = <<>> \/ other_attr_val = <<>>
    /\ report' = <<Report(0, 0, cp_self[1], cp_other[1])>>
    /\ pc' = "empty"
    /\ UNCHANGED <<frameParts, matrix, self_unused_vals, other_unused_vals,
                   committed, unused_reports>>

\* the fast-scan gate: return Report(0, 10, self, other)
ReturnSkipped ==
    /\ pc = "call"
    /\ SameVariant
    /\ attr_kind = "list"
    /\ self_attr_val # <<>> /\ other_attr_val # <<>>
    /\ SkipAttrList(fast_scan, skip_threshold,
                    Len(self_attr_val), Len(other_attr_val))
    /\ report' = <<Report(0, 10, cp_self[1], cp_other[1])>>
    /\ pc' = "skipped"
    /\ UNCHANGED <<frameParts, matrix, self_unused_vals, other_unused_vals,
                   committed, unused_reports>>

\* the matrix and the two sets of unused values are built
StartMatching ==
    /\ pc = "call"
    /\ SameVariant
    /\ attr_kind = "list"
    /\ self_attr_val # <<>> /\ other_attr_val # <<>>
    /\ ~SkipAttrList(fast_scan, skip_threshold,
                     Len(self_attr_val), Len(other_attr_val))
    /\ report' = <<Report(0, 0, cp_self[1], cp_other[1])>>
    /\ self_unused_vals' = { BlockEntity(b) : b \in Range(self_attr_val) }
    /\ other_unused_vals' = { BlockEntity(b) : b \in Range(other_attr_val) }
    /\ matrix' = BuildMatrix(self_attr_val, other_attr_val, 1, 1)
    /\ committed' = <<>>
    /\ unused_reports' = <<>>
    /\ pc' = "loop"
    /\ UNCHANGED frameParts

\* A slip of the bookkeeping: the unused values are the collections
\* themselves, not sets copied from them, so a commit removes the matched
\* elements from self.<attr> and other.<attr>.
CommitMaxInPlace ==
    /\ pc = "loop"
    /\ matrix # <<>>
    /\ LET max_report == MaxReport(matrix)
       IN  /\ self_unused_vals' = self_unused_vals \ {max_report.first}
           /\ other_unused_vals' = other_unused_vals \ {max_report.second}
           /\ self_attr_val' =
                  SelectSeq(self_attr_val,
                            LAMBDA b : BlockEntity(b) # max_report.first)
           /\ other_attr_val' =
                  SelectSeq(other_attr_val,
                            LAMBDA b : BlockEntity(b) # max_report.second)
           /\ matrix' = FilterMatrix(matrix, max_report)
           /\ report' = <<ReportAdd(report[1], max_report)>>
           /\ committed' = Append(committed, max_report)
    /\ UNCHANGED <<pc, fast_scan, skip_threshold, reportVars, compareVars,
                   schedVars, entityVars, mainVars, blocksVars, classVars, typesVars,
                   cp_self, cp_other, attr_kind, unused_reports>>

\* one iteration of `while matrix:`
CommitMax ==
    /\ pc = "loop"
    /\ matrix # <<>>
    /\ LET max_report == MaxReport(matrix)
       IN  /\ self_unused_vals' = self_unused_vals \ {max_report.first}
           /\ other_unused_vals' = other_unused_vals \ {max_report.second}
           /\ matrix' = FilterMatrix(matrix, max_report)
           /\ report' = <<ReportAdd(report[1], max_report)>>
           /\ committed' = Append(committed, max_report)
    /\ UNCHANGED <<pc, frameParts, unused_reports>>

\* the pool is empty: the loop is left
LeaveLoop ==
    /\ pc = "loop"
    /\ matrix = <<>>
    /\ pc' = "unused_self"
    /\ UNCHANGED <<frameParts, matrix, self_unused_vals, other_unused_vals,
                   report, committed, unused_reports>>

\* for unused in self_unused_vals: a set is iterated in no fixed order
AddUnusedSelf ==
    /\ pc = "unused_self"
    /\ \E unused \in self_unused_vals :
          /\ report' = <<ReportAdd(report[1], UnusedReport("self", unused))>>
          /\ unused_reports' =
                 Append(unused_reports, UnusedReport("self", unused))
          /\ self_unused_vals' = self_unused_vals \ {unused}
    /\ UNCHANGED <<pc, frameParts, matrix, other_unused_vals, committed>>

SelfUnusedDone ==
    /\ pc = "unused_self"
    /\ self_unused_vals = {}
    /\ pc' = "unused_other"
    /\ UNCHANGED <<frameParts, matrix, self_unused_vals, other_unused_vals,
                   report, committed, unused_reports>>

\* for unused in other_unused_vals
AddUnusedOther ==
    /\ pc = "unused_other"
    /\ \E unused \in other_unused_vals :
          /\ report' = <<ReportAdd(report[1], UnusedReport("other", unused))>>
          /\ unused_reports' =
                 Append(unused_reports, UnusedReport("other", unused))
          /\ other_unused_vals' = other_unused_vals \ {unused}
    /\ UNCHANGED <<pc, frameParts, matrix, self_unused_vals, committed>>

\* return report
ReturnMatched ==
    /\ pc = "unused_other"
    /\ other_unused_vals = {}
    /\ pc' = "matched"
    /\ UNCHANGED <<frameParts, matrix, self_unused_vals, other_unused_vals,
                   report, committed, unused_reports>>

NextParts ==
    \/ RaiseTypeError
    \/ RaiseNoAttribute
    \/ RaiseUnsupported
    \/ CompareSingle
    \/ ReturnEmpty
    \/ ReturnSkipped
    \/ StartMatching
    \/ CommitMax
    \/ LeaveLoop
    \/ AddUnusedSelf
    \/ SelfUnusedDone
    \/ AddUnusedOther
    \/ ReturnMatched

SpecParts == InitParts /\ [][NextParts]_vars


\* The distinct elements of a collection (set(self_attr_val)).
Distinct(vals) == Cardinality(Range(vals))

Min(a, b) == IF a < b THEN a ELSE b
Max(a, b) == IF a < b THEN b ELSE a

RECURSIVE SumWeights(_)
SumWeights(reps) ==
    IF reps = <<>> THEN 0
    ELSE Head(reps).weight + SumWeights(Tail(reps))

LoopFinished == pc \in {"unused_self", "unused_other", "matched"}

(***************************************************************************)
(* C1  Greedy-matching cap: over two non-empty collections, the reports    *)
(* the greedy loop commits form a bijective partial matching: no two of    *)
(* them share their `first`, no two share their `second`, each pairs an    *)
(* element of the left collection with one of the right, and once the loop *)
(* has finished there are as many as the smaller side has distinct         *)
(* elements.                                                               *)
(***************************************************************************)
C1_GreedyMatchingCap ==
    /\ \A i, j \in 1..Len(committed) :
          i # j => /\ committed[i].first # committed[j].first
                   /\ committed[i].second # committed[j].second
    /\ \A i \in 1..Len(committed) :
          /\ committed[i].first \in { BlockEntity(b) : b \in Range(self_attr_val) }
          /\ committed[i].second \in { BlockEntity(b) : b \in Range(other_attr_val) }
    /\ LoopFinished =>
          Len(committed) = Min(Distinct(self_attr_val), Distinct(other_attr_val))

\* The loop ran to its end on two collections of two elements and committed
\* two reports.
C1_Witness ==
    /\ pc = "matched"
    /\ Len(committed) = 2
    /\ Len(self_attr_val) = 2

(***************************************************************************)
(* C2  Weight conservation, as claimed: whenever compare_parts returns     *)
(* from a collection comparison of sizes m and n, the weight of the        *)
(* returned report is 10*max(m, n), whatever the element reports weigh and *)
(* also when a side is empty.                                              *)
(***************************************************************************)
C2_WeightIsTenTimesMax ==
    pc \in {"empty", "skipped", "matched"} =>
        report[1].weight = 10 * Max(Len(self_attr_val), Len(other_attr_val))

(***************************************************************************)
(* C2 (amended)  The weight of the report compare_parts returns for two    *)
(* collections with m and n distinct elements is 0 when a side is empty,   *)
(* 10 when the fast-scan gate fires, and otherwise the sum of the weights  *)
(* of the min(m, n) committed element reports plus 10*|m - n|; that is     *)
(* 10*max(m, n) when every committed element report weighs 10.             *)
(***************************************************************************)
C2_WeightAccounting ==
    LET m == Distinct(self_attr_val)
        n == Distinct(other_attr_val)
    IN  /\ pc = "empty" => report[1].weight = 0
        /\ pc = "skipped" => report[1].weight = 10
        /\ pc = "matched" =>
              /\ Len(committed) = Min(m, n)
              /\ report[1].weight = SumWeights(committed) + 10 * AbsDiff(m, n)
              /\ (\A i \in 1..Len(committed) : committed[i].weight = 10)
                    => report[1].weight = 10 * Max(m, n)

\* A match that does not weigh 10 was committed and an element of the right
\* side was left unmatched.
C2_Witness ==
    /\ pc = "matched"
    /\ \E i \in 1..Len(committed) : committed[i].weight = 20
    /\ Distinct(other_attr_val) > Distinct(self_attr_val)


(***************************************************************************)
(* compare_parts as a function, for the comparators that call it while     *)
(* descending an entity tree.  Same steps as the actions above; the two    *)
(* sets of unused values are walked in an arbitrary fixed order, on which  *)
(* neither probability nor weight depends.                                 *)
(***************************************************************************)
Scan(fast, threshold) == [fast |-> fast, threshold |-> threshold]

\* The matrix is built row by row: entry k of an m x n cross comparison is
\* self_attr_val[RowOf(k, n)].compare(other_attr_val[ColOf(k, n)], fast_scan).
RowOf(k, n) == ((k - 1) \div n) + 1
ColOf(k, n) == ((k - 1) % n) + 1

\* The while loop over the matrix; acc carries report and the two sets of
\* unused values.
RECURSIVE GreedyMatch(_, _)
GreedyMatch(m, acc) ==
    IF m = <<>> THEN acc
    ELSE LET max_report == MaxReport(m)
         IN  GreedyMatch(
                 FilterMatrix(m, max_report),
                 [report |-> ReportAdd(acc.report, max_report),
                  self_unused_vals |->
                      acc.self_unused_vals \ {max_report.first},
                  other_unused_vals |->
                      acc.other_unused_vals \ {max_report.second}])

RECURSIVE AddUnused(_, _, _)
AddUnused(rep, side, unused_vals) ==
    IF unused_vals = {} THEN rep
    ELSE LET unused == CHOOSE u \in unused_vals : TRUE
         IN  AddUnused(ReportAdd(rep, UnusedReport(side, unused)), side,
                       unused_vals \ {unused})

\* The two loops over the values no committed report names.
AddAllUnused(acc) ==
    AddUnused(AddUnused(acc.report, "self", acc.self_unused_vals),
              "other", acc.other_unused_vals)

\* compare_parts on a list attribute.  self_vals and other_vals are the
\* element entities (set() of them is what the code tracks as unused), and
\* matrix_ the cross comparison of the elements, used past the two early
\* returns only.
ComparePartsList(self_e, other_e, self_vals, other_vals, matrix_, scan) ==
    IF self_vals = <<>> \/ other_vals = <<>>
    THEN Report(0, 0, self_e, other_e)
    ELSE IF SkipAttrList(scan.fast, scan.threshold,
                         Len(self_vals), Len(other_vals))
    THEN Report(0, 10, self_e, other_e)
    ELSE AddAllUnused(
             GreedyMatch(matrix_,
                         [report |-> Report(0, 0, self_e, other_e),
                          self_unused_vals |-> Range(self_vals),
                          other_unused_vals |-> Range(other_vals)]))

\* compare_parts on an attribute that is one entity.
ComparePartsSingle(self_e, other_e, sub_report) ==
    ReportAdd(Report(0, 0, self_e, other_e), sub_report)

\* The entities of a collection whose members are distinct objects.
Members(variant, visualise, n) ==
    SubSeq([i \in 1..n |-> Entity(variant, i, visualise)], 1, n)

(***************************************************************************)
(* The Java comparators.                                                   *)
(***************************************************************************)
\* A table whose numeric family is named after the boxed integer, so that
\* "Integer" is itself a canonical form.
TypeTranslationBoxed(name) ==
    CASE name \in {"short", "Short", "int", "long", "Long", "float", "Float"}
           -> "Integer"
      [] name = "boolean" -> "Boolean"
      [] name \in {"char", "Character"} -> "String"
      [] OTHER -> ""

\* definitions.type_translation_dict; "" stands for None.
type_translation_dict(name) ==
    CASE name \in {"short", "Short", "int", "Integer", "long", "Long",
                   "float", "Float"} -> "Double"
      [] name = "boolean" -> "Boolean"
      [] name \in {"char", "Character"} -> "String"
      [] name \in {"ArrayList", "LinkedList"} -> "List"
      [] name \in {"HashSet", "TreeSet"} -> "Set"
      [] name \in {"HashMap", "TreeMap"} -> "Map"
      [] name \in {"FloatProperty", "IntegerProperty", "LongProperty"}
           -> "DoubleProperty"
      [] OTHER -> ""

\* thresholds.method_interface_threshold
method_interface_threshold == 80

\* JavaModifier.compare
JavaModifierCompare(self_e, self_name, other_e, other_name) ==
    IF self_name = other_name
    THEN Report(100, 10, self_e, other_e)
    ELSE Report(0, 10, self_e, other_e)

JavaType(name, is_user_defined, non_user_defined_types) ==
    [name |-> name, is_user_defined |-> is_user_defined,
     non_user_defined_types |-> non_user_defined_types]

JavaVariable(modifiers, type) == [modifiers |-> modifiers, type |-> type]

RECURSIVE JavaTypeCompare(_, _, _, _, _)
RECURSIVE JavaVariableCompare(_, _, _, _, _)

\* JavaType.compare on two user-defined types: compare_parts over
\* "non_user_defined_types"
UserTypeCompare(self_e, self, other_e, other, scan) ==
    LET self_vals == Members("JavaVariable", FALSE,
                             Len(self.non_user_defined_types))
        other_vals == Members("JavaVariable", FALSE,
                              Len(other.non_user_defined_types))
        Cmp(i, j) ==
            JavaVariableCompare(self_vals[i], self.non_user_defined_types[i],
                                other_vals[j], other.non_user_defined_types[j],
                                scan)
    IN  ComparePartsList(self_e, other_e, self_vals, other_vals,
            [k \in 1..(Len(self_vals) * Len(other_vals)) |->
                Cmp(RowOf(k, Len(other_vals)), ColOf(k, Len(other_vals)))],
            scan)

\* JavaType.compare without the two "is not None" guards of its second rule
JavaTypeCompareUnguarded(self_e, self, other_e, other, scan) ==
    LET self_format == type_translation_dict(self.name)
        other_format == type_translation_dict(other.name)
    IN  IF self.name = "" /\ other.name = ""
        THEN Report(100, 1, self_e, other_e)
        ELSE IF self.is_user_defined # other.is_user_defined
        THEN Report(0, 10, self_e, other_e)
        ELSE IF ~self.is_user_defined
        THEN IF self.name = other.name
             THEN Report(100, 10, self_e, other_e)
             ELSE IF self_format = other.name \/ self.name = other_format
             THEN Report(75, 10, self_e, other_e)
             ELSE IF self_format # "" /\ self_format = other_format
             THEN Report(50, 10, self_e, other_e)
             ELSE Report(0, 10, self_e, other_e)
        ELSE UserTypeCompare(self_e, self, other_e, other, scan)

\* JavaType.compare.  An empty name is None: its compatible_format is None.
JavaTypeCompare(self_e, self, other_e, other, scan) ==
    LET self_format == type_translation_dict(self.name)
        other_format == type_translation_dict(other.name)
    IN  IF self.name = "" /\ other.name = ""
        THEN Report(100, 1, self_e, other_e)
        ELSE IF self.is_user_defined # other.is_user_defined
        THEN Report(0, 10, self_e, other_e)
        ELSE IF ~self.is_user_defined
        THEN IF self.name = other.name
             THEN Report(100, 10, self_e, other_e)
             ELSE IF \/ (self_format = other.name /\ other.name # "")
                     \/ (self.name = other_format /\ self.name # "")
             THEN Report(75, 10, self_e, other_e)
             ELSE IF self_format # "" /\ self_format = other_format
             THEN Report(50, 10, self_e, other_e)
             ELSE Report(0, 10, self_e, other_e)
        ELSE UserTypeCompare(self_e, self, other_e, other, scan)

\* JavaVariable.compare, line 125: self.compare_parts(other, "modifiers")
VariableModifiersPart(self_e, self, other_e, other, scan) ==
    LET self_vals == Members("JavaModifier", FALSE, Len(self.modifiers))
        other_vals == Members("JavaModifier", FALSE, Len(other.modifiers))
        Cmp(i, j) == JavaModifierCompare(self_vals[i], self.modifiers[i],
                                         other_vals[j], other.modifiers[j])
    IN  ComparePartsList(self_e, other_e, self_vals, other_vals,
            [k \in 1..(Len(self_vals) * Len(other_vals)) |->
                Cmp(RowOf(k, Len(other_vals)), ColOf(k, Len(other_vals)))],
            scan)

\* JavaVariable.compare, line 126: self.compare_parts(other, "type")
VariableTypePart(self_e, self, other_e, other, scan) ==
    ComparePartsSingle(self_e, other_e,
        JavaTypeCompare(Entity("JavaType", self_e.id, FALSE), self.type,
                        Entity("JavaType", other_e.id, FALSE), other.type,
                        scan))

\* JavaVariable.compare
JavaVariableCompare(self_e, self, other_e, other, scan) ==
    ReportAdd(VariableModifiersPart(self_e, self, other_e, other, scan),
              VariableTypePart(self_e, self, other_e, other, scan))

\* JavaParameter.compare
JavaParameterCompare(self_e, self, other_e, other, scan) ==
    ComparePartsSingle(self_e, other_e,
        JavaTypeCompare(Entity("JavaType", self_e.id, FALSE), self.type,
                        Entity("JavaType", other_e.id, FALSE), other.type,
                        scan))

JavaParameter(type) == [type |-> type]

JavaMethod(return_type, arguments, all_blocks) ==
    [return_type |-> return_type, arguments |-> arguments,
     all_blocks |-> all_blocks]

\* compare_parts(other, "all_blocks", fast_scan) of two methods
AllBlocksCompare(self_e, self, other_e, other, scan) ==
    LET self_vals == [i \in 1..Len(self.all_blocks)
                        |-> BlockEntity(self.all_blocks[i])]
        other_vals == [i \in 1..Len(other.all_blocks)
                         |-> BlockEntity(other.all_blocks[i])]
        Cmp(i, j) == BlockCompare(self.all_blocks[i], other.all_blocks[j])
    IN  ComparePartsList(self_e, other_e, self_vals, other_vals,
                [k \in 1..(Len(self_vals) * Len(other_vals)) |->
                    Cmp(RowOf(k, Len(other_vals)), ColOf(k, Len(other_vals)))],
                scan)

\* The signature part of JavaMethod.compare: return type, then arguments.
MethodInterfaceCompare(self_e, self, other_e, other, scan) ==
    LET self_vals == Members("JavaParameter", FALSE, Len(self.arguments))
        other_vals == Members("JavaParameter", FALSE, Len(other.arguments))
        Cmp(i, j) == JavaParameterCompare(self_vals[i], self.arguments[i],
                                          other_vals[j], other.arguments[j],
                                          scan)
    IN  ReportAdd(
            ComparePartsSingle(self_e, other_e,
                JavaTypeCompare(Entity("JavaType", 0, FALSE), self.return_type,
                                Entity("JavaType", 0, FALSE), other.return_type,
                                scan)),
            ComparePartsList(self_e, other_e, self_vals, other_vals,
                [k \in 1..(Len(self_vals) * Len(other_vals)) |->
                    Cmp(RowOf(k, Len(other_vals)), ColOf(k, Len(other_vals)))],
                scan))

\* A slip of the gate: a signature exactly at the threshold also opens it.
MethodGateInclusive(scan, report_) ==
    (~scan.fast) \/ report_.probability >= method_interface_threshold

\* if (not fast_scan) or report.probability > method_interface_threshold
MethodGate(scan, report_) ==
    (~scan.fast) \/ report_.probability > method_interface_threshold

\* JavaMethod.compare, from the report of the signature on
MethodBodyCompare(report_, self_e, self, other_e, other, scan) ==
    IF MethodGate(scan, report_)
    THEN ReportAdd(report_,
                   AllBlocksCompare(self_e, self, other_e, other, scan))
    ELSE report_

\* JavaMethod.compare
JavaMethodCompare(self_e, self, other_e, other, scan) ==
    MethodBodyCompare(MethodInterfaceCompare(self_e, self, other_e, other, scan),
                      self_e, self, other_e, other, scan)

\* The parts JavaMethod.compare and PythonFunction.compare accumulate from
\* the report of the signature on: the signature alone, or the signature and
\* compare_parts(other, "all_blocks").
MethodParts(report_, self_e, self, other_e, other, scan) ==
    IF MethodGate(scan, report_)
    THEN <<report_, AllBlocksCompare(self_e, self, other_e, other, scan)>>
    ELSE <<report_>>

PythonFunction(has_vararg, has_kwarg, args_, positionals, kwonly, all_blocks) ==
    [has_vararg |-> has_vararg, has_kwarg |-> has_kwarg, args |-> args_,
     positionals |-> positionals, kwonlyargs |-> kwonly,
     all_blocks |-> all_blocks]

\* The signature part of PythonFunction.compare: five reports of weight 5
FunctionInterfaceCompare(self_e, self, other_e, other) ==
    ReportAdd(ReportAdd(ReportAdd(ReportAdd(
        Report(IF self.has_vararg = other.has_vararg THEN 100 ELSE 0, 5,
               self_e, other_e),
        Report(IF self.has_kwarg = other.has_kwarg THEN 100 ELSE 0, 5,
               self_e, other_e)),
        Report(Score(self.args, other.args), 5, self_e, other_e)),
        Report(Score(self.positionals, other.positionals), 5, self_e,
               other_e)),
        Report(Score(self.kwonlyargs, other.kwonlyargs), 5, self_e, other_e))

\* PythonFunction.compare
PythonFunctionCompare(self_e, self, other_e, other, scan) ==
    MethodBodyCompare(FunctionInterfaceCompare(self_e, self, other_e, other),
                      self_e, self, other_e, other, scan)

JavaClass(variables, methods) == [variables |-> variables, methods |-> methods]

\* JavaClass.compare
JavaClassCompare(self_e, self, other_e, other, scan) ==
    LET self_vars == Members("JavaVariable", FALSE, Len(self.variables))
        other_vars == Members("JavaVariable", FALSE, Len(other.variables))
        CmpVar(i, j) == JavaVariableCompare(self_vars[i], self.variables[i],
                                            other_vars[j], other.variables[j],
                                            scan)
        self_meths == Members("JavaMethod", TRUE, Len(self.methods))
        other_meths == Members("JavaMethod", TRUE, Len(other.methods))
        CmpMeth(i, j) == JavaMethodCompare(self_meths[i], self.methods[i],
                                           other_meths[j], other.methods[j],
                                           scan)
    IN  ReportAdd(
            ComparePartsList(self_e, other_e, self_vars, other_vars,
                [k \in 1..(Len(self_vars) * Len(other_vars)) |->
                    CmpVar(RowOf(k, Len(other_vars)), ColOf(k, Len(other_vars)))],
                scan),
            ComparePartsList(self_e, other_e, self_meths, other_meths,
                [k \in 1..(Len(self_meths) * Len(other_meths)) |->
                    CmpMeth(RowOf(k, Len(other_meths)), ColOf(k, Len(other_meths)))],
                scan))

JavaFile(classes) == [classes |-> classes]

\* JavaFile.compare
JavaFileCompare(self_e, self, other_e, other, scan) ==
    LET self_vals == Members("JavaClass", TRUE, Len(self.classes))
        other_vals == Members("JavaClass", TRUE, Len(other.classes))
        Cmp(i, j) == JavaClassCompare(self_vals[i], self.classes[i],
                                      other_vals[j], other.classes[j], scan)
    IN  ComparePartsList(self_e, other_e, self_vals, other_vals,
                [k \in 1..(Len(self_vals) * Len(other_vals)) |->
                    Cmp(RowOf(k, Len(other_vals)), ColOf(k, Len(other_vals)))],
                scan)

\* An AbstractProject: its tag, its template flag and its loaded files, each
\* file named by its position in JavaFiles (the files of a project that is
\* not a Java project are never opened here).
Project(project_type, is_template, files) ==
    [project_type |-> project_type, is_template |-> is_template,
     files |-> files]

\* JavaProject.size / PythonProject.size
size(project) == Len(project.files)

\* Source text the comparisons below run on.
TVoid == JavaType("", FALSE, <<>>)
TInt == JavaType("int", FALSE, <<>>)
TInteger == JavaType("Integer", FALSE, <<>>)
TString == JavaType("String", FALSE, <<>>)
VCount == JavaVariable(<<"private">>, TInt)
VName == JavaVariable(<<"public", "static">>, TString)
VTotal == JavaVariable(<<"private">>, TInteger)
\* A user-defined type without fields, and one with a field.
TFoo == JavaType("Foo", TRUE, <<>>)
TBar == JavaType("Bar", TRUE, <<VCount>>)
VFoo == JavaVariable(<<>>, TFoo)
VBar == JavaVariable(<<"private">>, TBar)

MRun == JavaMethod(TVoid, <<>>, <<1>>)
MRunTwice == JavaMethod(TVoid, <<>>, <<2>>)
MGet == JavaMethod(TInt, <<JavaParameter(TInt)>>, <<1, 2>>)
MFind == JavaMethod(TInt, <<JavaParameter(TString)>>, <<3>>)
\* A method without a body (abstract, or of an interface).
MAbstract == JavaMethod(TVoid, <<>>, <<>>)

JavaClasses ==
    << JavaClass(<<VCount>>, <<MRun>>),
       JavaClass(<<VCount>>, <<MRunTwice>>),
       JavaClass(<<VCount, VName>>, <<MGet>>),
       JavaClass(<<VTotal, VFoo>>, <<MFind, MAbstract>>),
       JavaClass(<<VBar>>, <<MGet, MRun>>),
       \* a class without members (a marker interface)
       JavaClass(<<>>, <<>>) >>

\* One class per file.
JavaFiles == [i \in 1..Len(JavaClasses) |-> JavaFile(<<JavaClasses[i]>>)]

\* JavaProject.compare: <<>> is None, else <<the report>>.
JavaProjectCompare(self_e, self, other_e, other, scan) ==
    IF self.project_type # other.project_type
    THEN <<>>
    ELSE LET self_vals == Members("JavaFile", TRUE, Len(self.files))
             other_vals == Members("JavaFile", TRUE, Len(other.files))
             Cmp(i, j) == JavaFileCompare(self_vals[i], JavaFiles[self.files[i]],
                                          other_vals[j],
                                          JavaFiles[other.files[j]], scan)
         IN  <<ComparePartsList(self_e, other_e, self_vals, other_vals,
                [k \in 1..(Len(self_vals) * Len(other_vals)) |->
                    Cmp(RowOf(k, Len(other_vals)), ColOf(k, Len(other_vals)))],
                scan)>>

(***************************************************************************)
(* Project.compare called on two loaded projects: once in full, once as a  *)
(* fast scan, once with the operands swapped.                              *)
(***************************************************************************)
JavaProjects ==
    {Project("Java", FALSE, files) :
        files \in SeqsUpTo(1..Len(JavaFiles), MaxLen)}

\* A project of the other language; compared with a Java project only.
PythonProjects == {Project("Python", FALSE, <<1>>)}

ProjectEntity(id) == Entity("Project", id, TRUE)

InitCompare ==
    /\ pc = "loaded"
    /\ fast_scan \in BOOLEAN
    /\ skip_threshold \in SkipThresholds
    /\ first_project \in {<<p>> : p \in JavaProjects}
    /\ other_project \in {<<p>> : p \in JavaProjects \cup PythonProjects}
    /\ res_full = <<>>
    /\ res_fast = <<>>
    /\ res_swapped = <<>>
    /\ IdleReport
    /\ IdleParts
    /\ IdleSched
    /\ IdleEntity
    /\ IdleMain
    /\ IdleBlocks
    /\ IdleClass
    /\ IdleTypes

frameCompare == <<fast_scan, skip_threshold, first_project, other_project,
                  reportVars, partsVars, schedVars, entityVars, mainVars, blocksVars, classVars, typesVars>>

\* The three calls, in the order they are made.
Calls == <<"full", "fast", "swapped">>

\* One call of Project.compare:
\*   "full"     first_project.compare(other_project, fast_scan=False)
\*   "fast"     first_project.compare(other_project, fast_scan=True)
\*   "swapped"  other_project.compare(first_project, fast_scan), between two
\*              Java projects
Returned(call, res) ==
    /\ res_full' = (IF call = "full" THEN res ELSE res_full)
    /\ res_fast' = (IF call = "fast" THEN res ELSE res_fast)
    /\ res_swapped' = (IF call = "swapped" THEN res ELSE res_swapped)

Compare(k) ==
    LET call == Calls[k]
        swapped == call = "swapped"
        self_e == ProjectEntity(IF swapped THEN 2 ELSE 1)
        other_e == ProjectEntity(IF swapped THEN 1 ELSE 2)
        self == IF swapped THEN other_project[1] ELSE first_project[1]
        other == IF swapped THEN first_project[1] ELSE other_project[1]
        fast == IF swapped THEN fast_scan ELSE call = "fast"
    IN  /\ pc = (IF k = 1 THEN "loaded" ELSE Calls[k - 1])
        /\ self.project_type = "Java"
        /\ Returned(call, JavaProjectCompare(self_e, self, other_e, other,
                                             Scan(fast, skip_threshold)))
        /\ pc' = call
        /\ UNCHANGED frameCompare

NextCompare == \E k \in 1..Len(Calls) : Compare(k)

SpecCompare == InitCompare /\ [][NextCompare]_vars


\* The report first_project.compare(other_project, fast_scan) returned.
ResForward == IF fast_scan THEN res_fast ELSE res_full

\* A report tree in which every report has probability 100 and neither end
\* of any report is NotFound.
RECURSIVE PerfectTree(_)
PerfectTree(rep) ==
    /\ rep.probability = 100
    /\ rep.first.variant # "NotFound"
    /\ rep.second.variant # "NotFound"
    /\ \A i \in 1..Len(rep.child_reports) : PerfectTree(rep.child_reports[i])

(***************************************************************************)
(* C3  Fast-scan soundness: for two projects of the same language, the     *)
(* probability compare returns with fast_scan = False is greater than or   *)
(* equal to the probability it returns with fast_scan = True.              *)
(***************************************************************************)
C3_FastScanSoundness ==
    (pc \in {"fast", "swapped"} /\ res_full # <<>> /\ res_fast # <<>>)
        => res_full[1].probability >= res_fast[1].probability

(***************************************************************************)
(* C4  Symmetry of score: for two projects p and q of the same language,   *)
(* compare(p, q).probability equals compare(q, p).probability.             *)
(***************************************************************************)
C4_SymmetricScore ==
    (pc = "swapped" /\ ResForward # <<>> /\ res_swapped # <<>>)
        => ResForward[1].probability = res_swapped[1].probability

(***************************************************************************)
(* C5  Identity: for a project p that has loaded files, compare(p, p) has  *)
(* probability 100, every report in its tree has probability 100 and no    *)
(* report of the tree has a NotFound end; also when p contains classes     *)
(* without members, methods without bodies or types without fields.        *)
(***************************************************************************)
C5_Identity ==
    (/\ pc = "full"
     /\ first_project = other_project
     /\ size(first_project[1]) > 0)
        => PerfectTree(res_full[1])


(***************************************************************************)
(* parallel_compare_projects.  A project is named by its position in the   *)
(* input list; the report a worker returns is represented by the pair it   *)
(* compared.  The main process, the pool workers and the _print_progress   *)
(* process interleave.                                                     *)
(***************************************************************************)
MaxProjects == 3
MaxCpu == 2

ProjectTypes == {"Java", "Python"}

\* The projects a list is drawn from: either language, template or
\* submission, without or with one loaded file.
LoadedProjects ==
    {Project(t, tpl, files) :
        t \in ProjectTypes, tpl \in BOOLEAN, files \in {<<>>, <<1>>}}

\* The position of project_type among the keys, 0 when it is not a key.
RECURSIVE KeyIndex(_, _, _)
KeyIndex(by_type, project_type, k) ==
    IF k > Len(by_type) THEN 0
    ELSE IF by_type[k].project_type = project_type THEN k
    ELSE KeyIndex(by_type, project_type, k + 1)

\* A slip of the partition: every project under one key.
RECURSIVE ProjectListToDictOneKey(_, _, _)
ProjectListToDictOneKey(project_list, i, by_type) ==
    IF i > Len(project_list) THEN by_type
    ELSE ProjectListToDictOneKey(project_list, i + 1,
             IF by_type = <<>>
             THEN <<[project_type |-> project_list[i].project_type,
                     members |-> <<i>>]>>
             ELSE [by_type EXCEPT ![1].members = Append(@, i)])

\* _project_list_to_dict, from project i of the list on; by_type is the dict
\* so far, its keys in insertion order.
RECURSIVE ProjectListToDict(_, _, _)
ProjectListToDict(project_list, i, by_type) ==
    IF i > Len(project_list) THEN by_type
    ELSE LET project == project_list[i]
             k == KeyIndex(by_type, project.project_type, 1)
         IN  ProjectListToDict(project_list, i + 1,
                 IF k = 0
                 THEN Append(by_type, [project_type |-> project.project_type,
                                       members |-> <<i>>])
                 ELSE IF size(project) > 0
                 THEN [by_type EXCEPT ![k].members = Append(@, i)]
                 ELSE by_type)

\* [p for p in members if p.is_template == flag]
RECURSIVE FilterTemplate(_, _, _)
FilterTemplate(project_list, members, flag) ==
    IF members = <<>> THEN <<>>
    ELSE LET rest == FilterTemplate(project_list, Tail(members), flag)
         IN  IF project_list[Head(members)].is_template = flag
             THEN <<Head(members)>> \o rest
             ELSE rest

\* The second loop of _generate_comparisons, from index idx on.
RECURSIVE PairsFrom(_, _)
PairsFrom(actual, idx) ==
    IF idx >= Len(actual) THEN <<>>
    ELSE [j \in 1..(Len(actual) - idx) |-> <<actual[idx], actual[idx + j]>>]
         \o PairsFrom(actual, idx + 1)

\* A slip of the generator: every project is paired with every other one.
GenerateComparisonsAllOrdered(actual, template_projs) ==
    LET n == Len(actual)
    IN  [k \in 1..(n * n) |->
            <<actual[((k - 1) \div n) + 1], actual[((k - 1) % n) + 1]>>]

\* list(_generate_comparisons(projects, template_projs, fast_scan, queue)),
\* each tuple cut down to its two projects.
GenerateComparisons(actual, template_projs) ==
    LET n == Len(actual)
    IN  [k \in 1..(Len(template_projs) * n) |->
            <<template_projs[((k - 1) \div n) + 1], actual[((k - 1) % n) + 1]>>]
        \o PairsFrom(actual, 1)

\* A slip of the sum: the pairs of submissions are counted in both orders.
RECURSIVE TotalComparisonsOrdered(_, _)
TotalComparisonsOrdered(project_list, by_type) ==
    IF by_type = <<>> THEN 0
    ELSE LET no_of_templates ==
                 Len(FilterTemplate(project_list, Head(by_type).members, TRUE))
             no_of_projects ==
                 Len(FilterTemplate(project_list, Head(by_type).members, FALSE))
         IN  no_of_projects * no_of_templates
             + no_of_projects * (no_of_projects - 1)
             + TotalComparisonsOrdered(project_list, Tail(by_type))

\* The sum parallel_compare_projects computes before it starts the timer.
RECURSIVE TotalComparisons(_, _)
TotalComparisons(project_list, by_type) ==
    IF by_type = <<>> THEN 0
    ELSE LET no_of_templates ==
                 Len(FilterTemplate(project_list, Head(by_type).members, TRUE))
             no_of_projects ==
                 Len(FilterTemplate(project_list, Head(by_type).members, FALSE))
         IN  no_of_projects * no_of_templates
             + (no_of_projects * (no_of_projects - 1)) \div 2
             + TotalComparisons(project_list, Tail(by_type))

\* No comparison raises, or the comparison of one pair of projects does.
Faults(n) ==
    {{}} \cup {{{x[1], x[2]}} : x \in {y \in (1..n) \X (1..n) : y[1] < y[2]}}

InitSched ==
    /\ pc = "start"
    /\ fast_scan \in BOOLEAN
    /\ skip_threshold = 50
    /\ projects \in SeqsUpTo(LoadedProjects, MaxProjects)
    /\ cpu_count \in 1..MaxCpu
    /\ raising \in Faults(Len(projects))
    /\ projects_by_types = <<>>
    /\ total_comparisons_needed = 0
    /\ type_idx = 0
    /\ iterable_of_tuples = <<>>
    /\ chunk_size = 0
    /\ chunk_pos = <<>>
    /\ chunk_raised = {}
    /\ running = {}
    /\ collected = 0
    /\ reports = <<>>
    /\ queue = 0
    /\ timer = "idle"
    /\ handed = <<>>
    /\ IdleReport
    /\ IdleParts
    /\ IdleCompare
    /\ IdleEntity
    /\ IdleMain
    /\ IdleBlocks
    /\ IdleClass
    /\ IdleTypes

inputSched == <<fast_scan, skip_threshold, projects, cpu_count, raising,
                reportVars, partsVars, entityVars, mainVars, blocksVars, classVars, typesVars>>
poolSched == <<iterable_of_tuples, chunk_size, chunk_pos, chunk_raised,
               running, collected>>

\* Up to timer.start(): the dict, the total, the queue and the timer.
Prepare ==
    /\ pc = "start"
    /\ projects_by_types' = ProjectListToDict(projects, 1, <<>>)
    /\ total_comparisons_needed' =
           TotalComparisons(projects, projects_by_types')
    /\ timer' = "running"
    /\ pc' = "pool"
    /\ UNCHANGED <<inputSched, compareVars, poolSched, type_idx, reports,
                   queue, handed>>

\* The number of chunks of the running imap, and the tasks in chunk c.
NumChunks == (Len(iterable_of_tuples) + chunk_size - 1) \div chunk_size
ChunkLen(c) == Min(chunk_size, Len(iterable_of_tuples) - (c - 1) * chunk_size)

\* One turn of the loop over projects_by_types, up to the call of pool.imap.
Submit ==
    /\ pc = "pool"
    /\ type_idx < Len(projects_by_types)
    /\ LET members == projects_by_types[type_idx + 1].members
           template_projs == FilterTemplate(projects, members, TRUE)
           actual_projects == FilterTemplate(projects, members, FALSE)
           size_ == Len(actual_projects) \div cpu_count
       IN  /\ chunk_size' = (IF size_ = 0 THEN 1 ELSE size_)
           /\ iterable_of_tuples' =
                  GenerateComparisons(actual_projects, template_projs)
    /\ type_idx' = type_idx + 1
    /\ handed' = handed \o iterable_of_tuples'
    /\ chunk_pos' =
           [c \in 1..((Len(iterable_of_tuples') + chunk_size' - 1)
                         \div chunk_size') |-> 0]
    /\ chunk_raised' = {}
    /\ running' = {}
    /\ collected' = 0
    /\ pc' = (IF iterable_of_tuples' = <<>> THEN "pool" ELSE "collecting")
    /\ UNCHANGED <<inputSched, compareVars, projects_by_types,
                   total_comparisons_needed, reports, queue, timer>>

\* The chunks a worker has taken.
Taken == {c \in 1..NumChunks :
             chunk_pos[c] > 0 \/ c \in running \/ c \in chunk_raised}

\* The chunks a worker is busy with.
Busy ==
    {c \in Taken : chunk_pos[c] < ChunkLen(c) /\ c \notin chunk_raised}

\* __compare_wrapper on the next tuple of chunk c, in a pool worker, up to
\* queue.put(1).  A free worker takes the first chunk nobody has taken.
CompareWrapper(c) ==
    /\ pc = "collecting"
    /\ c \notin chunk_raised
    /\ c \notin running
    /\ chunk_pos[c] < ChunkLen(c)
    /\ \/ chunk_pos[c] > 0
       \/ /\ Cardinality(Busy) < cpu_count
          /\ \A b \in 1..(c - 1) : b \in Taken
    /\ queue' = queue + 1
    /\ running' = running \cup {c}
    /\ UNCHANGED <<pc, inputSched, compareVars, projects_by_types,
                   total_comparisons_needed, type_idx, iterable_of_tuples,
                   chunk_size, chunk_pos, chunk_raised, collected, reports,
                   timer, handed>>

\* return first_project.compare(other_project, fast_scan): the comparison
\* the worker of chunk c is inside returns or raises.
CompareReturns(c) ==
    /\ pc = "collecting"
    /\ c \in running
    /\ running' = running \ {c}
    /\ LET args_tuple ==
               iterable_of_tuples[(c - 1) * chunk_size + chunk_pos[c] + 1]
       IN  IF {args_tuple[1], args_tuple[2]} \in raising
           THEN /\ chunk_raised' = chunk_raised \cup {c}
                /\ UNCHANGED chunk_pos
           ELSE /\ chunk_pos' = [chunk_pos EXCEPT ![c] = @ + 1]
                /\ UNCHANGED chunk_raised
    /\ UNCHANGED <<pc, inputSched, compareVars, projects_by_types,
                   total_comparisons_needed, type_idx, iterable_of_tuples,
                   chunk_size, collected, reports, queue, timer, handed>>

\* A slip of the collection: imap_unordered, the results of whichever
\* chunk is done are taken next (a chunk that was taken is marked by a
\* position past its length).
CollectUnordered ==
    /\ pc = "collecting"
    /\ collected < NumChunks
    /\ \E c \in 1..NumChunks :
          \/ /\ c \in chunk_raised
             /\ pc' = "raised"
             /\ UNCHANGED <<collected, reports, chunk_pos>>
          \/ /\ c \notin chunk_raised
             /\ chunk_pos[c] = ChunkLen(c)
             /\ reports' = reports \o
                    SubSeq(iterable_of_tuples, (c - 1) * chunk_size + 1,
                           (c - 1) * chunk_size + ChunkLen(c))
             /\ chunk_pos' = [chunk_pos EXCEPT ![c] = @ + 1]
             /\ collected' = collected + 1
             /\ pc' = (IF collected' = NumChunks THEN "pool" ELSE "collecting")
    /\ UNCHANGED <<inputSched, compareVars, projects_by_types,
                   total_comparisons_needed, type_idx, iterable_of_tuples,
                   chunk_size, chunk_raised, running, queue, timer, handed>>

\* reports.extend(pool.imap(...)) takes the results of the next chunk, in
\* the order of the tuples; the exception of a worker is raised here and
\* leaves parallel_compare_projects.
Collect ==
    /\ pc = "collecting"
    /\ collected < NumChunks
    /\ LET c == collected + 1
       IN  \/ /\ c \in chunk_raised
              /\ pc' = "raised"
              /\ UNCHANGED <<collected, reports>>
           \/ /\ c \notin chunk_raised
              /\ chunk_pos[c] = ChunkLen(c)
              /\ reports' = reports \o
                     SubSeq(iterable_of_tuples, (c - 1) * chunk_size + 1,
                            (c - 1) * chunk_size + ChunkLen(c))
              /\ collected' = c
              /\ pc' = (IF c = NumChunks THEN "pool" ELSE "collecting")
    /\ UNCHANGED <<inputSched, compareVars, projects_by_types,
                   total_comparisons_needed, type_idx, iterable_of_tuples,
                   chunk_size, chunk_pos, chunk_raised, running, queue, timer,
                   handed>>

\* _print_progress leaves its loop once qsize() is final_num.
PrintProgress ==
    /\ timer = "running"
    /\ queue = total_comparisons_needed
    /\ timer' = "exited"
    /\ UNCHANGED <<pc, inputSched, compareVars, projects_by_types,
                   total_comparisons_needed, type_idx, poolSched, reports,
                   queue, handed>>

\* timer.join() and return reports
Return ==
    /\ pc = "pool"
    /\ type_idx = Len(projects_by_types)
    /\ timer = "exited"
    /\ pc' = "returned"
    /\ UNCHANGED <<inputSched, compareVars, schedVars>>

\* projects[i].compare(projects[j], fast_scan=False), called by hand on two
\* projects of the list.  PythonProject.compare is followed up to its test
\* of the tags only.
DirectCompare(i, j) ==
    /\ pc = "returned"
    /\ \/ projects[i].project_type = "Java"
       \/ projects[i].project_type # projects[j].project_type
    /\ first_project' = <<projects[i]>>
    /\ other_project' = <<projects[j]>>
    /\ res_full' =
           (IF projects[i].project_type = "Java"
            THEN JavaProjectCompare(ProjectEntity(i), projects[i],
                                    ProjectEntity(j), projects[j],
                                    Scan(FALSE, skip_threshold))
            ELSE <<>>)
    /\ pc' = "compared"
    /\ UNCHANGED <<fast_scan, skip_threshold, reportVars, partsVars, schedVars,
                   entityVars, mainVars, blocksVars, classVars, typesVars, res_fast, res_swapped>>

NextSched ==
    \/ Prepare
    \/ Submit
    \/ \E c \in 1..Len(chunk_pos) : CompareWrapper(c)
    \/ \E c \in 1..Len(chunk_pos) : CompareReturns(c)
    \/ Collect
    \/ PrintProgress
    \/ Return
    \/ \E i, j \in 1..Len(projects) : DirectCompare(i, j)

SpecSched == InitSched /\ [][NextSched]_vars


\* The projects of the partition the loop is at, as sets of positions.
PartitionTemplates ==
    Range(FilterTemplate(projects, projects_by_types[type_idx].members, TRUE))
PartitionActual ==
    Range(FilterTemplate(projects, projects_by_types[type_idx].members, FALSE))

\* The tuples handed to imap that compare a with b, in either order.
TuplesOf(a, b) ==
    {k \in 1..Len(iterable_of_tuples) :
        {iterable_of_tuples[k][1], iterable_of_tuples[k][2]} = {a, b}}

(***************************************************************************)
(* C6  Language isolation: Project.compare returns no report when the      *)
(* language tags of the two projects differ, and every pair that           *)
(* parallel_compare_projects hands to a worker is made of two projects     *)
(* with the same language tag, whatever the mix of languages in the list.  *)
(***************************************************************************)
C6_LanguageIsolation ==
    /\ \A k \in 1..Len(handed) :
           projects[handed[k][1]].project_type
               = projects[handed[k][2]].project_type
    /\ (/\ pc = "compared"
        /\ first_project[1].project_type # other_project[1].project_type)
           => res_full = <<>>

\* A list of both languages of which a pair was handed to a worker, and a
\* direct comparison across the two languages that returned None.
C6_Witness ==
    /\ pc = "compared"
    /\ first_project[1].project_type # other_project[1].project_type
    /\ res_full = <<>>
    /\ handed # <<>>

(***************************************************************************)
(* C7  Pair enumeration: of the projects of one partition, the scheduler   *)
(* hands to imap the pair (template, non-template) once for every template *)
(* and every non-template, and each unordered pair of distinct             *)
(* non-templates once; it hands over no pair of two templates, no pair of  *)
(* a project with itself and no pair twice.                                *)
(***************************************************************************)
C7_PairEnumeration ==
    type_idx >= 1 =>
        /\ \A t \in PartitionTemplates : \A p \in PartitionActual :
               /\ Cardinality(TuplesOf(t, p)) = 1
               /\ \E k \in TuplesOf(t, p) : iterable_of_tuples[k] = <<t, p>>
        /\ \A p \in PartitionActual : \A q \in PartitionActual \ {p} :
               Cardinality(TuplesOf(p, q)) = 1
        /\ \A k \in 1..Len(iterable_of_tuples) :
               LET first == iterable_of_tuples[k][1]
                   second == iterable_of_tuples[k][2]
               IN  /\ first # second
                   /\ second \in PartitionActual
                   /\ first \in PartitionTemplates \cup PartitionActual
                   /\ ~(projects[first].is_template
                           /\ projects[second].is_template)
                   /\ TuplesOf(first, second) = {k}

\* A partition of a template and two submissions, handed to imap.
C7_Witness ==
    /\ type_idx >= 1
    /\ pc = "collecting"
    /\ Cardinality(PartitionTemplates) >= 1
    /\ Cardinality(PartitionActual) >= 2
    /\ Len(iterable_of_tuples) = 3

\* The tuples of a list whose comparison does not raise.
RECURSIVE NotRaising(_)
NotRaising(tuples) ==
    IF tuples = <<>> THEN <<>>
    ELSE IF {Head(tuples)[1], Head(tuples)[2]} \in raising
    THEN NotRaising(Tail(tuples))
    ELSE <<Head(tuples)>> \o NotRaising(Tail(tuples))

(***************************************************************************)
(* C8  Worker fault isolation: when the comparison of one pair raises in a *)
(* worker, parallel_compare_projects is not left by the exception, and it  *)
(* returns the reports of all the other pairs, the failing pair left out.  *)
(***************************************************************************)
C8_WorkerFaultIsolation ==
    /\ pc # "raised"
    /\ pc = "returned" => reports = NotRaising(handed)

(***************************************************************************)
(* C9  Empty projects are never compared: no pair handed to a worker has a *)
(* project of size() = 0, wherever the empty project stands in the list.   *)
(***************************************************************************)
C9_EmptyNeverCompared ==
    \A k \in 1..Len(handed) :
        /\ size(projects[handed[k][1]]) > 0
        /\ size(projects[handed[k][2]]) > 0


\* The left operand of the k-th addition of SpecReport.
LeftOperand(k) == IF k = 1 THEN rep_self[1] ELSE rep_sum[k - 1]

\* Every report in a child_reports list of the tree of rep has an entity
\* that is marked visualise.
RECURSIVE ChildrenVisualisable(_)
ChildrenVisualisable(rep) ==
    \A i \in 1..Len(rep.child_reports) :
        /\ rep.child_reports[i].first.visualise
              \/ rep.child_reports[i].second.visualise
        /\ ChildrenVisualisable(rep.child_reports[i])

(***************************************************************************)
(* C11  Children policy of combine: when the first entities of a and b, or *)
(* their second entities, are of the same variant, the children of a + b   *)
(* are a's children followed by b's; otherwise they are a's children, with *)
(* b itself appended only if one of b's entities is marked visualise.      *)
(* Hence every report in a child_reports list of a sum references at least *)
(* one visualisable entity.                                                *)
(***************************************************************************)
C11_ChildrenPolicy ==
    \A k \in 1..Len(rep_sum) :
        LET a == LeftOperand(k)
            b == rep_other[k]
            s == rep_sum[k]
            same == \/ a.first.variant = b.first.variant
                    \/ a.second.variant = b.second.variant
        IN  /\ same => s.child_reports = a.child_reports \o b.child_reports
            /\ (~same /\ (b.first.visualise \/ b.second.visualise))
                  => s.child_reports = Append(a.child_reports, b)
            /\ (~same /\ ~b.first.visualise /\ ~b.second.visualise)
                  => s.child_reports = a.child_reports
            /\ ChildrenVisualisable(s)

\* A report of another pair that carries a child was appended whole, then a
\* report without a visualisable entity was added and left no child.
C11_Witness ==
    /\ Len(rep_sum) = 2
    /\ rep_self[1].first.variant = "JavaMethod"
    /\ rep_other[1].first.variant = "JavaClass"
    /\ rep_other[1].child_reports # <<>>
    /\ rep_sum[1].child_reports = <<rep_other[1]>>
    /\ rep_other[2].first.variant = "JavaModifier"
    /\ rep_sum[2].child_reports = rep_sum[1].child_reports

\* ExcelHandler.crete_overview: the keys of counter_dict, and the keys a
\* probability is counted under (the code takes the first of them).
OverviewBins ==
    {<<10 * i, 10 * i + 9>> : i \in 0..8} \cup {<<90, 100>>}
OverviewKeys(probability) ==
    {k \in OverviewBins : k[1] <= probability /\ probability <= k[2]}

(***************************************************************************)
(* C12  Range invariant: every sum of a sequence of combine operations     *)
(* that starts from reports with probability in 0..100 and weight >= 0 has *)
(* probability in 0..100 and weight >= 0, and so is counted under exactly  *)
(* one key of the overview histogram.                                      *)
(***************************************************************************)
C12_RangeInvariant ==
    \A k \in 1..Len(rep_sum) :
        /\ rep_sum[k].probability \in 0..100
        /\ rep_sum[k].weight >= 0
        /\ Cardinality(OverviewKeys(rep_sum[k].probability)) = 1

\* Two additions whose sum stays at the upper end of the range.
C12_Witness ==
    /\ Len(rep_sum) = 2
    /\ rep_self[1].probability = 100 /\ rep_self[1].weight = 20
    /\ rep_other[1].probability = 99 /\ rep_other[1].weight = 1
    /\ rep_other[2].probability = 100 /\ rep_other[2].weight = 10
    /\ rep_sum[2].probability = 99
    /\ OverviewKeys(rep_sum[2].probability) = {<<90, 100>>}



(***************************************************************************)
(* compare called once on two entities of one class: two types, two        *)
(* variables or two statement blocks.                                      *)
(***************************************************************************)
\* Every key and every value of type_translation_dict, a name outside the
\* table, and "" for a type without a name.
TypeNames ==
    {"short", "Short", "int", "Integer", "long", "Long", "float", "Float",
     "boolean", "char", "Character", "ArrayList", "LinkedList", "HashSet",
     "TreeSet", "HashMap", "TreeMap", "FloatProperty", "IntegerProperty",
     "LongProperty", "Double", "Boolean", "String", "List", "Set", "Map",
     "DoubleProperty", "Object", ""}

SampleTypes == {JavaType(n, FALSE, <<>>) : n \in TypeNames} \cup {TFoo, TBar}

SampleVariables ==
    {JavaVariable(m, t) :
        m \in {<<>>, <<"private">>, <<"public", "static">>},
        t \in {JavaType(n, FALSE, <<>>) :
                  n \in {"int", "Integer", "Double", "String", ""}}
              \cup {TFoo, TBar}}

NodeKinds ==
    {"IfStatement", "WhileStatement", "ForStatement", "ReturnStatement"}

\* Most node kinds one histogram of the model holds.
MaxKinds == 2

\* Most occurrences of one node kind.
MaxCount == 2

\* _tree_to_dict: a dict from node kind to a positive count, in insertion
\* order; the statement's own node is always counted, so it is never empty.
Histograms ==
    {h \in UNION {[1..n -> [kind : NodeKinds, n : 1..MaxCount]] :
                     n \in 1..MaxKinds} :
        \A i, j \in 1..Len(h) : h[i].kind = h[j].kind => i = j}

\* Methods the model compares one with another: three return types, three
\* parameter lists and four bodies.
SampleMethods ==
    {JavaMethod(r, a, b) :
        r \in {TVoid, TInt, TString},
        a \in {<<>>, <<JavaParameter(TInt)>>, <<JavaParameter(TString)>>},
        b \in {<<>>, <<1>>, <<1, 2>>, <<3>>}}

\* Most arguments of a sampled Python function.
MaxArgs == 2

SampleFunctions ==
    {PythonFunction(v, k, a, p, 0, b) :
        v \in BOOLEAN, k \in BOOLEAN, a \in 0..MaxArgs, p \in 0..1,
        b \in {<<>>, <<1>>, <<3>>}}

EntityKinds ==
    {"JavaType", "JavaVariable", "JavaStatementBlock", "JavaMethod",
     "PythonFunction"}

InitEntity ==
    /\ pc = "entity"
    /\ fast_scan \in BOOLEAN
    /\ skip_threshold \in SkipThresholds
    /\ ent_kind \in EntityKinds
    /\ \/ /\ ent_kind = "JavaType"
          /\ \E a, b \in SampleTypes : ent_self = <<a>> /\ ent_other = <<b>>
       \/ /\ ent_kind = "JavaVariable"
          /\ \E a, b \in SampleVariables :
                 ent_self = <<a>> /\ ent_other = <<b>>
       \/ /\ ent_kind = "JavaStatementBlock"
          /\ \E a, b \in Histograms : ent_self = <<a>> /\ ent_other = <<b>>
       \/ /\ ent_kind = "JavaMethod"
          /\ \E a, b \in SampleMethods : ent_self = <<a>> /\ ent_other = <<b>>
       \/ /\ ent_kind = "PythonFunction"
          /\ \E a, b \in SampleFunctions :
                 ent_self = <<a>> /\ ent_other = <<b>>
    /\ ent_parts = <<>>
    /\ ent_report = <<>>
    /\ IdleReport
    /\ IdleParts
    /\ IdleCompare
    /\ IdleSched
    /\ IdleMain
    /\ IdleBlocks
    /\ IdleClass
    /\ IdleTypes

frameEntity == <<fast_scan, skip_threshold, reportVars, partsVars, compareVars,
                 schedVars, mainVars, blocksVars, classVars, typesVars, ent_kind, ent_self, ent_other>>

EntitySelf == Entity(ent_kind, 1, FALSE)

EntityOther == Entity(ent_kind, 2, FALSE)

EntityScan == Scan(fast_scan, skip_threshold)

\* JavaType.compare(other, fast_scan)
TypeCompare ==
    /\ pc = "entity"
    /\ ent_kind = "JavaType"
    /\ pc' = "compared"
    /\ ent_parts' = <<>>
    /\ ent_report' = <<JavaTypeCompare(EntitySelf, ent_self[1], EntityOther,
                                       ent_other[1], EntityScan)>>
    /\ UNCHANGED frameEntity

\* JavaVariable.compare(other, fast_scan): the two compare_parts results
\* and their sum
VariableCompare ==
    /\ pc = "entity"
    /\ ent_kind = "JavaVariable"
    /\ pc' = "compared"
    /\ ent_parts' = <<VariableModifiersPart(EntitySelf, ent_self[1],
                                            EntityOther, ent_other[1],
                                            EntityScan),
                      VariableTypePart(EntitySelf, ent_self[1], EntityOther,
                                       ent_other[1], EntityScan)>>
    /\ ent_report' = <<ReportAdd(ent_parts'[1], ent_parts'[2])>>
    /\ UNCHANGED frameEntity

\* What the loop of AbstractStatementBlock.compare adds for each node kind
\* of self.parts, one after another
RECURSIVE BlockAdditions(_, _, _, _)
BlockAdditions(self_e, other_e, parts, other_parts) ==
    IF parts = <<>> THEN <<>>
    ELSE <<BlockPartReport(self_e, other_e, Head(parts).kind, Head(parts).n,
                           other_parts)>>
         \o BlockAdditions(self_e, other_e, Tail(parts), other_parts)

\* AbstractStatementBlock.compare(other, fast_scan)
StatementCompare ==
    /\ pc = "entity"
    /\ ent_kind = "JavaStatementBlock"
    /\ pc' = "compared"
    /\ ent_parts' = BlockAdditions(EntitySelf, EntityOther, ent_self[1],
                                   ent_other[1])
    /\ ent_report' = <<StatementBlockCompare(EntitySelf, ent_self[1],
                                             EntityOther, ent_other[1])>>
    /\ UNCHANGED frameEntity

\* JavaMethod.compare(other, fast_scan): the signature report, the body
\* report when the gate is open, and the result
MethodCompare ==
    /\ pc = "entity"
    /\ ent_kind = "JavaMethod"
    /\ pc' = "compared"
    /\ ent_parts' = MethodParts(MethodInterfaceCompare(EntitySelf, ent_self[1],
                                     EntityOther, ent_other[1], EntityScan),
                                EntitySelf, ent_self[1], EntityOther,
                                ent_other[1], EntityScan)
    /\ ent_report' = <<JavaMethodCompare(EntitySelf, ent_self[1], EntityOther,
                                         ent_other[1], EntityScan)>>
    /\ UNCHANGED frameEntity

\* PythonFunction.compare(other, fast_scan)
FunctionCompare ==
    /\ pc = "entity"
    /\ ent_kind = "PythonFunction"
    /\ pc' = "compared"
    /\ ent_parts' = MethodParts(FunctionInterfaceCompare(EntitySelf,
                                     ent_self[1], EntityOther, ent_other[1]),
                                EntitySelf, ent_self[1], EntityOther,
                                ent_other[1], EntityScan)
    /\ ent_report' = <<PythonFunctionCompare(EntitySelf, ent_self[1],
                                             EntityOther, ent_other[1],
                                             EntityScan)>>
    /\ UNCHANGED frameEntity

NextEntity ==
    \/ TypeCompare
    \/ VariableCompare
    \/ StatementCompare
    \/ MethodCompare
    \/ FunctionCompare

SpecEntity == InitEntity /\ [][NextEntity]_vars

\* C13: JavaType.compare follows its rule table for every pair of types
\* whose names are keys or values of the normalisation table, a name
\* outside it, or no name: 100/1 when both names are empty; else 0/10 when
\* exactly one type is user-defined; else, for two types that are not
\* user-defined, 100/10 on equal names, else 75/10 when one side's
\* canonical form is the other's raw name, else 50/10 when both have the
\* same defined canonical form, else 0/10.
C13_TypeRuleTable ==
    (pc = "compared" /\ ent_kind = "JavaType") =>
        LET a == ent_self[1]
            b == ent_other[1]
            r == ent_report[1]
            canon_a == type_translation_dict(a.name)
            canon_b == type_translation_dict(b.name)
            is(p, w) == r.probability = p /\ r.weight = w
        IN  /\ (a.name = "" /\ b.name = "") => is(100, 1)
            /\ (~(a.name = "" /\ b.name = "")
                /\ a.is_user_defined # b.is_user_defined) => is(0, 10)
            /\ (~(a.name = "" /\ b.name = "")
                /\ ~a.is_user_defined /\ ~b.is_user_defined) =>
                   IF a.name = b.name THEN is(100, 10)
                   ELSE IF \/ (canon_a # "" /\ canon_a = b.name)
                           \/ (canon_b # "" /\ canon_b = a.name)
                   THEN is(75, 10)
                   ELSE IF canon_a # "" /\ canon_a = canon_b
                   THEN is(50, 10)
                   ELSE is(0, 10)

\* C13 witness: a key of the table was compared with its canonical form
\* and the report is 75/10.
C13_Witness ==
    /\ pc = "compared"
    /\ ent_kind = "JavaType"
    /\ ent_self[1].name = "ArrayList"
    /\ ent_other[1].name = "List"
    /\ ent_report[1].probability = 75
    /\ ent_report[1].weight = 10


IntVersusInteger ==
    /\ pc = "compared"
    /\ ent_kind = "JavaVariable"
    /\ ent_self[1].type = JavaType("int", FALSE, <<>>)
    /\ ent_other[1].type = JavaType("Integer", FALSE, <<>>)

\* C14: comparing a variable of the non-user-defined type int with one of
\* the non-user-defined type Integer, the type comparison yields
\* probability 50 with weight 10 (both names normalise to Double, neither
\* is the other's canonical form), and that report is what the variable
\* comparison accumulates for its type part: the result weighs the
\* modifiers part plus 10 and its probability is the floored weighted mean
\* of the modifiers part and 50.
C14_IntIntegerScenario ==
    IntVersusInteger =>
        LET modifiers == ent_parts[1]
            type == ent_parts[2]
            r == ent_report[1]
        IN  /\ type.probability = 50
            /\ type.weight = 10
            /\ r.weight = modifiers.weight + 10
            /\ r.probability =
                   (modifiers.probability * modifiers.weight + 50 * 10)
                       \div (modifiers.weight + 10)

\* C14 witness: int was compared with Integer under variables that also
\* carry a modifier each, so both parts weigh in the sum.
C14_Witness ==
    /\ IntVersusInteger
    /\ ent_self[1].modifiers = <<"private">>
    /\ ent_other[1].modifiers = <<"private">>
    /\ ent_report[1].probability = 75
    /\ ent_report[1].weight = 20

\* C14 as the scenario states it: int against Integer yields a type report
\* of probability 75.
C14_AsStated ==
    IntVersusInteger => ent_parts[2].probability = 75


BlocksCompared == pc = "compared" /\ ent_kind = "JavaStatementBlock"

\* Two histograms are the same dict: the same kinds with the same counts,
\* in whatever order they were inserted.
SameHistogram(a, b) ==
    /\ Len(a) = Len(b)
    /\ \A i \in 1..Len(a) : \E j \in 1..Len(b) : a[i] = b[j]

\* C15: two statement blocks whose node-kind histograms are identical
\* compare with probability 100.
C15_HistogramNeutrality ==
    (BlocksCompared /\ SameHistogram(ent_self[1], ent_other[1])) =>
        ent_report[1].probability = 100

\* C15 witness: two blocks with the same two kinds and counts, inserted in
\* opposite orders, were compared and scored 100 with weight 20.
C15_Witness ==
    /\ BlocksCompared
    /\ SameHistogram(ent_self[1], ent_other[1])
    /\ Len(ent_self[1]) = 2
    /\ ent_self[1][1] = ent_other[1][2]
    /\ ent_self[1][1].n # ent_self[1][2].n
    /\ ent_report[1].probability = 100
    /\ ent_report[1].weight = 20

\* The report the block comparator is said to accumulate for one node kind
\* of the left histogram.
ExpectedPartProbability(kind, n, other_parts) ==
    IF Occurrences(other_parts, kind) > 0
    THEN Score(n, Occurrences(other_parts, kind))
    ELSE IF /\ node_translation_dict(kind) # ""
            /\ Occurrences(other_parts, node_translation_dict(kind)) > 0
    THEN Score(n, Occurrences(other_parts, node_translation_dict(kind)))
             \div 2
    ELSE 0

\* C17: the statement-block comparator accumulates exactly one weight-10
\* report for every node kind of the left histogram (the score when the
\* other block has the kind, half the score when it has only the
\* translated kind, otherwise 0), so the result weighs 10 times the number
\* of kinds of the left histogram.
C17_OneReportPerKind ==
    BlocksCompared =>
        /\ Len(ent_parts) = Len(ent_self[1])
        /\ \A k \in 1..Len(ent_parts) :
               /\ Len(ent_parts[k]) = 1
               /\ ent_parts[k][1].weight = 10
               /\ ent_parts[k][1].probability =
                      ExpectedPartProbability(ent_self[1][k].kind,
                                              ent_self[1][k].n, ent_other[1])
        /\ ent_report[1].weight = 10 * Len(ent_self[1])

\* C17 case: a while loop on the left, neither a while nor a for loop on
\* the right; nothing was accumulated for it.
C17_Witness ==
    /\ BlocksCompared
    /\ ent_self[1] = <<Part("WhileStatement", 1)>>
    /\ ent_other[1] = <<Part("IfStatement", 1)>>
    /\ ent_parts = << <<>> >>
    /\ ent_report[1].weight = 0


(***************************************************************************)
(* main(args): the cloning phase and what follows it.                      *)
(***************************************************************************)
\* A catalogue option: not given, a file that cannot be read, a file
\* listing no project, a file listing projects.
CatalogueFiles == {"", "unreadable", "empty", "urls"}

\* A GitLab group id: not set, or set.
GroupIds == {"", "4242"}

InitMain ==
    /\ pc = "main"
    /\ fast_scan \in BOOLEAN
    /\ skip_threshold \in SkipThresholds
    /\ args \in [offline : BOOLEAN, group_id : GroupIds,
                 projects_file : CatalogueFiles,
                 templates_file : CatalogueFiles, clone_only : BOOLEAN]
    /\ environ \in [BDS_PROJECTS_SUBGROUP_YEAR_ID : GroupIds]
    /\ calls = <<>>
    /\ IdleReport
    /\ IdleParts
    /\ IdleCompare
    /\ IdleSched
    /\ IdleEntity
    /\ IdleBlocks
    /\ IdleClass
    /\ IdleTypes

frameMain == <<fast_scan, skip_threshold, reportVars, partsVars, compareVars,
               schedVars, entityVars, blocksVars, classVars, typesVars, args, environ>>

Call(fn, target, source) == [fn |-> fn, target |-> target, source |-> source]

\* main, lines 28-54: the group clone, which needs the network and git and
\* so either returns or raises
CloneGroup ==
    /\ pc = "main"
    /\ LET group_id == IF args.group_id # "" THEN args.group_id
                       ELSE environ.BDS_PROJECTS_SUBGROUP_YEAR_ID
       IN  IF ~args.offline /\ group_id # ""
           THEN /\ calls' = Append(calls, Call("parallel_clone_projects",
                                               "projects_dir", group_id))
                /\ pc' \in {"projects_file", "raised"}
           ELSE /\ calls' = calls
                /\ pc' = "projects_file"
    /\ UNCHANGED frameMain

\* parse_projects_file, then parallel_clone_projects_from_url, inside
\* try/except Exception: an unreadable file invokes nothing
CloneCatalogue(file, target) ==
    IF file \in {"empty", "urls"}
    THEN calls' = Append(calls, Call("parallel_clone_projects_from_url",
                                     target, file))
    ELSE calls' = calls

\* main, lines 55-60
CloneProjectsFile ==
    /\ pc = "projects_file"
    /\ CloneCatalogue(args.projects_file, "projects_dir")
    /\ pc' = "templates_file"
    /\ UNCHANGED frameMain

\* main, lines 61-67
CloneTemplatesFile ==
    /\ pc = "templates_file"
    /\ CloneCatalogue(args.templates_file, "templates_dir")
    /\ pc' = "cloned"
    /\ UNCHANGED frameMain

\* main, lines 70-72
StopAfterCloning ==
    /\ pc = "cloned"
    /\ args.clone_only
    /\ pc' = "stopped"
    /\ UNCHANGED <<frameMain, calls>>

\* main, lines 73-122: load both directories, compare, write the workbook
\* when there is a report
LoadAndCompare ==
    /\ pc = "cloned"
    /\ ~args.clone_only
    /\ \E has_reports \in BOOLEAN :
           calls' = calls
               \o <<Call("parallel_initialize_projects", "projects_dir", ""),
                    Call("parallel_initialize_projects", "templates_dir", ""),
                    Call("parallel_compare_projects", "", "")>>
               \o (IF has_reports THEN <<Call("create_excel", "", "")>>
                   ELSE <<>>)
    /\ pc' = "done"
    /\ UNCHANGED frameMain

NextMain ==
    \/ CloneGroup
    \/ CloneProjectsFile
    \/ CloneTemplatesFile
    \/ StopAfterCloning
    \/ LoadAndCompare

SpecMain == InitMain /\ [][NextMain]_vars

RemoteFetches ==
    {k \in 1..Len(calls) :
        calls[k].fn \in {"parallel_clone_projects",
                         "parallel_clone_projects_from_url"}}

\* C16: with --offline set, main invokes neither parallel_clone_projects
\* nor parallel_clone_projects_from_url, whatever the other options are.
C16_OfflineNoFetch ==
    (pc \in {"main", "projects_file", "templates_file", "cloned", "stopped",
             "done", "raised"} /\ args.offline) => RemoteFetches = {}

\* C16 case: --offline together with --projects-file naming a catalogue of
\* project urls; the catalogue clone was invoked.
C16_Witness ==
    /\ pc = "stopped"
    /\ args.offline
    /\ args.projects_file = "urls"
    /\ args.templates_file = ""
    /\ calls = <<Call("parallel_clone_projects_from_url", "projects_dir",
                      "urls")>>


\* The report a step of the matching loop has just committed is the first
\* maximum of the pool the step started from.
CommitIsFirstMaximum ==
    Len(committed') = Len(committed) + 1 =>
        LET max_report == committed'[Len(committed')]
        IN  \E k \in 1..Len(matrix) :
               /\ matrix[k] = max_report
               /\ \A j \in 1..Len(matrix) : ~ReportGt(matrix[j], max_report)
               /\ \A j \in 1..(k - 1) : ReportLt(matrix[j], max_report)

CommittedNonIncreasing ==
    \A i, j \in 1..Len(committed) :
        i < j => ~ReportLt(committed[i], committed[j])

\* C18: every iteration of the matching loop of compare_parts commits a
\* maximum of the remaining pool under the ordering by probability, then
\* weight, and among equal maxima the first in the pool's row-major order;
\* so the committed reports are non-increasing in that ordering, and on
\* collections of m and n distinct elements the loop ends after exactly
\* min(m, n) commits.
C18_GreedySelectionOrder ==
    /\ [][CommitIsFirstMaximum]_vars
    /\ [](/\ CommittedNonIncreasing
          /\ (/\ LoopFinished
              /\ Distinct(self_attr_val) = Len(self_attr_val)
              /\ Distinct(other_attr_val) = Len(other_attr_val))
                 => Len(committed) = Min(Len(self_attr_val),
                                         Len(other_attr_val)))

\* C18 witness: on two collections of two distinct blocks each the loop
\* committed a perfect match first and a strictly smaller one second.
C18_Witness ==
    /\ pc = "matched"
    /\ Distinct(self_attr_val) = 2
    /\ Distinct(other_attr_val) = 2
    /\ Len(committed) = 2
    /\ committed[1].probability = 100
    /\ ReportLt(committed[2], committed[1])

\* Every report compare_parts accumulated on the way to its result.
Accumulated == committed \o unused_reports

\* C19: when compare_parts returns from two non-empty collections without
\* taking the fast-scan gate, every distinct element of the left side is
\* the `first` of exactly one accumulated report and every distinct element
\* of the right side the `second` of exactly one; that report is a
\* committed match or a Report(0, 10) pairing the element with NotFound on
\* the opposite side; and the number of NotFound reports is the difference
\* of the numbers of distinct elements.
C19_UnmatchedAccounting ==
    pc = "matched" =>
        LET lefts == {BlockEntity(b) : b \in Range(self_attr_val)}
            rights == {BlockEntity(b) : b \in Range(other_attr_val)}
        IN  /\ \A e \in lefts :
                   Cardinality({k \in 1..Len(Accumulated) :
                                   Accumulated[k].first = e}) = 1
            /\ \A e \in rights :
                   Cardinality({k \in 1..Len(Accumulated) :
                                   Accumulated[k].second = e}) = 1
            /\ \A k \in 1..Len(committed) :
                   committed[k].first \in lefts
                       /\ committed[k].second \in rights
            /\ \A k \in 1..Len(unused_reports) :
                   /\ unused_reports[k].probability = 0
                   /\ unused_reports[k].weight = 10
                   /\ \/ /\ unused_reports[k].first \in lefts
                         /\ unused_reports[k].second = NotFound
                      \/ /\ unused_reports[k].first = NotFound
                         /\ unused_reports[k].second \in rights
            /\ Len(unused_reports) =
                   AbsDiff(Cardinality(lefts), Cardinality(rights))

\* C19 witness: one block against two; one match was committed and the
\* other block of the right side was paired with NotFound on the left.
C19_Witness ==
    /\ pc = "matched"
    /\ Len(self_attr_val) = 1
    /\ Distinct(other_attr_val) = 2
    /\ Len(committed) = 1
    /\ Len(unused_reports) = 1
    /\ unused_reports[1].first = NotFound
    /\ unused_reports[1].second \in
           {BlockEntity(b) : b \in Range(other_attr_val)}

\* C20: when either collection is empty, compare_parts returns at once a
\* report of probability 0 and weight 0 without children: no element was
\* compared, nothing was committed and no NotFound report was added for
\* the elements of the non-empty side.
C20_EmptySideShortCircuit ==
    pc = "empty" =>
        /\ self_attr_val = <<>> \/ other_attr_val = <<>>
        /\ report[1] = Report(0, 0, cp_self[1], cp_other[1])
        /\ report[1].child_reports = <<>>
        /\ matrix = <<>>
        /\ committed = <<>>
        /\ unused_reports = <<>>

\* C20 witness: two blocks on the left, none on the right, and the zero
\* report was returned.
C20_Witness ==
    /\ pc = "empty"
    /\ Len(self_attr_val) = 2
    /\ other_attr_val = <<>>
    /\ report[1].weight = 0


MethodsCompared ==
    pc = "compared" /\ ent_kind \in {"JavaMethod", "PythonFunction"}

\* C21: JavaMethod.compare and PythonFunction.compare add the comparison of
\* "all_blocks" if and only if fast_scan is false or the probability of the
\* signature report is strictly greater than method_interface_threshold
\* (80); with the gate closed the result is the signature report itself,
\* with the gate open it is the signature report plus the body report.
C21_BodyGate ==
    MethodsCompared =>
        LET signature == ent_parts[1]
            open == (~fast_scan) \/ signature.probability > 80
        IN  /\ Len(ent_parts) = (IF open THEN 2 ELSE 1)
            /\ ~open => ent_report[1] = signature
            /\ open =>
                  /\ ent_report[1].weight =
                         signature.weight + ent_parts[2].weight
                  /\ ent_report[1].probability =
                         (signature.probability * signature.weight
                          + ent_parts[2].probability * ent_parts[2].weight)
                             \div (IF ent_report[1].weight = 0 THEN 1
                                   ELSE ent_report[1].weight)

\* C21 witness: under fast_scan two Python functions whose signature scores
\* exactly 80 were compared; the body, which they have, was left out.
C21_Witness ==
    /\ MethodsCompared
    /\ ent_kind = "PythonFunction"
    /\ fast_scan
    /\ ent_parts[1].probability = 80
    /\ ent_self[1].all_blocks # <<>>
    /\ ent_other[1].all_blocks # <<>>
    /\ Len(ent_parts) = 1
    /\ ent_report[1].weight = 25

\* C21 second case: under fast_scan two Java methods with equal signatures
\* were compared and the body report was added.
C21_WitnessOpen ==
    /\ MethodsCompared
    /\ ent_kind = "JavaMethod"
    /\ fast_scan
    /\ ent_parts[1].probability = 100
    /\ Len(ent_parts) = 2
    /\ ent_parts[2].weight > 0


(***************************************************************************)
(* all_blocks: the statement blocks of a method and of the methods it      *)
(* invokes, for the methods of one Java class or the functions of one      *)
(* Python file.                                                            *)
(***************************************************************************)
\* Most methods of the scanned class or file.
MaxMethods == 2

\* Most statement blocks of one method.
MaxBlocks == 2

MethodNames == {"f", "g"}

\* The calls written in a statement: none, or one call of a method by
\* name; "h" is declared nowhere.
Invocations == {<<>>, <<"f">>, <<"g">>, <<"h">>}

ScannedMethods ==
    [name : MethodNames,
     statement_blocks : UNION {[1..n -> [calls : Invocations]] :
                                   n \in 1..MaxBlocks}]

ScannedUnits ==
    [language : {"Java", "Python"},
     methods : UNION {[1..n -> ScannedMethods] : n \in 1..MaxMethods}]

InitBlocks ==
    /\ pc = "scanned"
    /\ fast_scan = FALSE
    /\ skip_threshold \in SkipThresholds
    /\ IdleClass
    /\ IdleTypes
    /\ \E u \in ScannedUnits :
           /\ unit = <<u>>
           /\ cached_all_blocks = [m \in 1..Len(u.methods) |-> <<>>]
    /\ IdleReport
    /\ IdleParts
    /\ IdleCompare
    /\ IdleSched
    /\ IdleEntity
    /\ IdleMain

\* A statement block is the object built for position k of method m.
Block(m, k) == [method |-> m, position |-> k]

\* method.statement_blocks / function.parts, as block objects
OwnBlocks(methods, m) ==
    [k \in 1..Len(methods[m].statement_blocks) |-> Block(m, k)]

\* AbstractStatementBlock._search_for_types for the invocation node type,
\* as the constructors of the two block classes call it.  It looks at the
\* statement itself and descends through getattr(statement, "attrs", []).
\* A javalang node lists its children in attrs, so the calls of a Java
\* statement are handed over as found; a node of Python's ast has no attrs
\* and no statement is itself an ast.Call, so nothing is found.
SearchForInvocations(language, statement) ==
    IF language = "Java" THEN statement.calls ELSE <<>>

\* JavaMethodInvocation.method_referenced for a call without qualifier: the
\* method of the class with that name when there is exactly one; 0 is None.
JavaMethodReferenced(methods, name) ==
    LET local_methods == {m \in 1..Len(methods) : methods[m].name = name}
    IN  IF Cardinality(local_methods) = 1
        THEN CHOOSE m \in local_methods : TRUE
        ELSE 0

\* PythonFile.get_function without qualifier: the last function of the file
\* with that name; 0 is None.
PythonGetFunction(methods, name) ==
    LET ans == {m \in 1..Len(methods) : methods[m].name = name}
    IN  IF ans # {}
        THEN CHOOSE m \in ans : \A n \in ans : n <= m
        ELSE 0

\* JavaStatementBlock.statements_from_invocations
RECURSIVE JavaStatementsFromInvocations(_, _, _)
JavaStatementsFromInvocations(methods, java_method, invoked_methods) ==
    IF invoked_methods = <<>> THEN <<>>
    ELSE LET m == JavaMethodReferenced(methods, Head(invoked_methods))
         IN  (IF m = java_method \/ m = 0 THEN <<>>
              ELSE OwnBlocks(methods, m))
             \o JavaStatementsFromInvocations(methods, java_method,
                                              Tail(invoked_methods))

\* PythonStatementBlock.statements_from_invocations
RECURSIVE PythonStatementsFromInvocations(_, _, _)
PythonStatementsFromInvocations(methods, parent, invoked_methods) ==
    IF invoked_methods = <<>> THEN <<>>
    ELSE LET func == PythonGetFunction(methods, Head(invoked_methods))
         IN  (IF func = 0 THEN <<>> ELSE OwnBlocks(methods, func))
             \o PythonStatementsFromInvocations(methods, parent,
                                                Tail(invoked_methods))

\* JavaMethod.statements_from_invocations / the same property of
\* PythonFunction: the blocks are visited in order, from block k on
RECURSIVE StatementsFromInvocations(_, _, _, _)
StatementsFromInvocations(language, methods, m, k) ==
    IF k > Len(methods[m].statement_blocks) THEN <<>>
    ELSE (IF language = "Java"
          THEN JavaStatementsFromInvocations(methods, m,
                   SearchForInvocations(language,
                                        methods[m].statement_blocks[k]))
          ELSE PythonStatementsFromInvocations(methods, m,
                   SearchForInvocations(language,
                                        methods[m].statement_blocks[k])))
         \o StatementsFromInvocations(language, methods, m, k + 1)

\* JavaMethod.all_blocks / PythonFunction.all_blocks
AllBlocks(language, methods, m) ==
    OwnBlocks(methods, m) \o StatementsFromInvocations(language, methods, m, 1)

frameBlocks == <<pc, fast_scan, skip_threshold, reportVars, partsVars,
                 compareVars, schedVars, entityVars, mainVars, classVars, typesVars,
                 unit>>

\* The first read of method.all_blocks of a Java method caches it.
JavaAllBlocks(m) ==
    /\ pc = "scanned"
    /\ unit[1].language = "Java"
    /\ m \in DOMAIN cached_all_blocks
    /\ cached_all_blocks[m] = <<>>
    /\ cached_all_blocks' =
           [cached_all_blocks EXCEPT
               ![m] = <<AllBlocks("Java", unit[1].methods, m)>>]
    /\ UNCHANGED frameBlocks

\* The first read of function.all_blocks of a Python function caches it.
PythonAllBlocks(m) ==
    /\ pc = "scanned"
    /\ unit[1].language = "Python"
    /\ m \in DOMAIN cached_all_blocks
    /\ cached_all_blocks[m] = <<>>
    /\ cached_all_blocks' =
           [cached_all_blocks EXCEPT
               ![m] = <<AllBlocks("Python", unit[1].methods, m)>>]
    /\ UNCHANGED frameBlocks

NextBlocks ==
    \/ \E m \in 1..MaxMethods : JavaAllBlocks(m)
    \/ \E m \in 1..MaxMethods : PythonAllBlocks(m)

SpecBlocks == InitBlocks /\ [][NextBlocks]_vars

\* The method an invocation by name resolves to in the scanned unit.
Referenced(u, name) ==
    IF u.language = "Java" THEN JavaMethodReferenced(u.methods, name)
    ELSE PythonGetFunction(u.methods, name)

\* The blocks an invocation is to contribute to the all_blocks of method m:
\* those of the referenced method, none for m itself.
RECURSIVE InvokedBlocksExceptSelf(_, _, _)
InvokedBlocksExceptSelf(u, m, invoked) ==
    IF invoked = <<>> THEN <<>>
    ELSE LET g == Referenced(u, Head(invoked))
         IN  (IF g = 0 \/ g = m THEN <<>> ELSE OwnBlocks(u.methods, g))
             \o InvokedBlocksExceptSelf(u, m, Tail(invoked))

RECURSIVE ExpectedInvoked(_, _, _)
ExpectedInvoked(u, m, k) ==
    IF k > Len(u.methods[m].statement_blocks) THEN <<>>
    ELSE InvokedBlocksExceptSelf(u, m, u.methods[m].statement_blocks[k].calls)
         \o ExpectedInvoked(u, m, k + 1)

\* C22: for every method or function f of either language, all_blocks(f)
\* is f's own blocks followed by the blocks of the methods f invokes, and
\* an invocation of f itself adds no blocks: no block of f occurs twice.
C22_SelfRecursionExcluded ==
    pc = "scanned" =>
        \A m \in 1..Len(unit[1].methods) :
            cached_all_blocks[m] # <<>> =>
                /\ cached_all_blocks[m][1] =
                       OwnBlocks(unit[1].methods, m)
                           \o ExpectedInvoked(unit[1], m, 1)
                /\ \A k \in 1..Len(unit[1].methods[m].statement_blocks) :
                       Cardinality({i \in 1..Len(cached_all_blocks[m][1]) :
                                       cached_all_blocks[m][1][i] = Block(m, k)})
                           = 1

\* C22 case: a Python file with the functions f and g, one block each,
\* where f calls g; all_blocks(f) holds the block of f alone.
C22_Witness ==
    /\ pc = "scanned"
    /\ unit[1].language = "Python"
    /\ Len(unit[1].methods) = 2
    /\ unit[1].methods[1].name = "f"
    /\ unit[1].methods[2].name = "g"
    /\ Len(unit[1].methods[1].statement_blocks) = 1
    /\ Len(unit[1].methods[2].statement_blocks) = 1
    /\ unit[1].methods[1].statement_blocks[1].calls = <<"g">>
    /\ cached_all_blocks[1] = << <<Block(1, 1)>> >>

\* The Java half of C22: for the methods of a Java class all_blocks is the
\* own blocks followed by those of the invoked methods other than itself.
C22_JavaSelfRecursionExcluded ==
    (pc = "scanned" /\ unit[1].language = "Java") =>
        \A m \in 1..Len(unit[1].methods) :
            cached_all_blocks[m] # <<>> =>
                cached_all_blocks[m][1] =
                    OwnBlocks(unit[1].methods, m)
                        \o ExpectedInvoked(unit[1], m, 1)


PartsCalled ==
    pc \in {"TypeError", "ValueError", "single", "empty", "skipped", "loop",
            "unused_self", "unused_other", "matched"}

ThreeCombined == pc = "added" /\ Len(rep_sum) = 2

\* a + (b + c) for the three operands of the running sum
RightGrouped ==
    ReportAdd(rep_self[1], ReportAdd(rep_other[1], rep_other[2]))

\* C24, as claimed: (a + b) + c and a + (b + c) have the same probability
\* and the same weight.
C24_Associativity ==
    ThreeCombined =>
        /\ rep_sum[2].weight = RightGrouped.weight
        /\ rep_sum[2].probability = RightGrouped.probability

\* C24 (amended): (a + b) + c and a + (b + c) have the same weight, the sum
\* of the three weights, and each probability is the floor of the exact
\* weighted mean of the three operands or one less, so the two
\* probabilities differ by at most 1.
C24_AssociativityUpToRounding ==
    ThreeCombined =>
        LET a == rep_self[1]
            b == rep_other[1]
            c == rep_other[2]
            w == a.weight + b.weight + c.weight
            d == IF w = 0 THEN 1 ELSE w
            num == a.probability * a.weight + b.probability * b.weight
                       + c.probability * c.weight
            near(p) == d * p <= num /\ num < d * (p + 2)
        IN  /\ rep_sum[2].weight = w
            /\ RightGrouped.weight = w
            /\ near(rep_sum[2].probability)
            /\ near(RightGrouped.probability)
            /\ AbsDiff(rep_sum[2].probability, RightGrouped.probability) <= 1

\* C24 witness: three reports of positive weight were combined and the two
\* groupings differ by 1 in probability.
C24_Witness ==
    /\ ThreeCombined
    /\ rep_self[1].weight > 0
    /\ rep_other[1].weight > 0
    /\ rep_other[2].weight > 0
    /\ AbsDiff(rep_sum[2].probability, RightGrouped.probability) = 1


SameScore(r, a) == r.probability = a.probability /\ r.weight = a.weight

MaxClassMethods == 3

\* The methods the model draws from.
MethodPool ==
    { JavaMethod(TVoid, <<>>, <<1>>),
      JavaMethod(TInt, <<JavaParameter(TInt)>>, <<1, 2>>),
      JavaMethod(TString, <<JavaParameter(TString)>>, <<3>>) }

InitClass ==
    /\ pc = "class"
    /\ fast_scan \in BOOLEAN
    /\ skip_threshold \in SkipThresholds
    /\ IdleReport
    /\ IdleParts
    /\ IdleCompare
    /\ IdleSched
    /\ IdleEntity
    /\ IdleMain
    /\ IdleBlocks
    /\ IdleTypes
    /\ self_methods \in SeqsUpTo(MethodPool, MaxClassMethods)
    /\ other_methods \in SeqsUpTo(MethodPool, MaxClassMethods)
    /\ unused_order = <<>>
    /\ methods_report = <<>>

frameClass == <<fast_scan, skip_threshold, reportVars, partsVars, compareVars,
                schedVars, entityVars, mainVars, blocksVars, typesVars,
                self_methods, other_methods>>

ClassSelf == Entity("JavaClass", 1, TRUE)

ClassOther == Entity("JavaClass", 2, TRUE)

\* The method objects of a class in the order of its list: the identity of
\* a method is its position.
MethodEntities(methods) == Members("JavaMethod", TRUE, Len(methods))

\* self_val.compare(other_val, fast_scan) for every pair of methods, row by
\* row
MethodMatrix(self_vals, other_vals, scan) ==
    [k \in 1..(Len(self_methods) * Len(other_methods)) |->
        JavaMethodCompare(self_vals[RowOf(k, Len(other_methods))],
                          self_methods[RowOf(k, Len(other_methods))],
                          other_vals[ColOf(k, Len(other_methods))],
                          other_methods[ColOf(k, Len(other_methods))],
                          scan)]

\* The orders a for loop can visit a set of entities in: the entities define
\* no __hash__, so the set is laid out by their addresses.
IterationOrders(S) == { o \in [1..Cardinality(S) -> S] : Range(o) = S }

\* for unused in ...: report += Report(0, 10, ...), in the order visited
RECURSIVE AddUnusedInOrder(_, _, _)
AddUnusedInOrder(rep, side, order) ==
    IF order = <<>> THEN rep
    ELSE AddUnusedInOrder(ReportAdd(rep, UnusedReport(side, Head(order))),
                          side, Tail(order))

\* compare_parts(other, "methods", fast_scan) past the two early returns:
\* the greedy matching, then the two loops over the unused methods.
MatchMethods(self_vals, other_vals, scan) ==
    LET acc == GreedyMatch(MethodMatrix(self_vals, other_vals, scan),
                           [report |-> Report(0, 0, ClassSelf, ClassOther),
                            self_unused_vals |-> Range(self_vals),
                            other_unused_vals |-> Range(other_vals)])
    IN  \E self_order \in IterationOrders(acc.self_unused_vals),
           other_order \in IterationOrders(acc.other_unused_vals) :
           /\ unused_order' = self_order \o other_order
           /\ methods_report' =
                  <<AddUnusedInOrder(
                        AddUnusedInOrder(acc.report, "self", self_order),
                        "other", other_order)>>

\* self.compare_parts(other, "methods", fast_scan) of JavaClass.compare
CompareMethods ==
    /\ pc = "class"
    /\ pc' = "class_compared"
    /\ IF \/ self_methods = <<>>
          \/ other_methods = <<>>
          \/ SkipAttrList(fast_scan, skip_threshold,
                          Len(self_methods), Len(other_methods))
       THEN /\ unused_order' = <<>>
            /\ methods_report' =
                   <<ComparePartsList(ClassSelf, ClassOther,
                                      MethodEntities(self_methods),
                                      MethodEntities(other_methods), <<>>,
                                      Scan(fast_scan, skip_threshold))>>
       ELSE MatchMethods(MethodEntities(self_methods),
                         MethodEntities(other_methods),
                         Scan(fast_scan, skip_threshold))
    /\ UNCHANGED frameClass

NextClass == CompareMethods

SpecClass == InitClass /\ [][NextClass]_vars

\* The child reports that name the sentinel, in the order they stand in.
UnmatchedChildren ==
    SelectSeq(methods_report[1].child_reports,
              LAMBDA r : r.first = NotFound \/ r.second = NotFound)

\* The method an unmatched child report is about.
UnmatchedMethod(r) == IF r.second = NotFound THEN r.first ELSE r.second

\* C26: the child reports of the report compare_parts returns are the
\* matched children in commit order followed by the unmatched (NotFound)
\* children in the insertion order of the collection, the same on every
\* run.  Refuted: the unmatched methods are visited in the iteration order
\* of a set.
C26_UnmatchedInInsertionOrder ==
    pc = "class_compared" =>
        \A i, j \in 1..Len(UnmatchedChildren) :
            i < j => UnmatchedMethod(UnmatchedChildren[i]).id
                         < UnmatchedMethod(UnmatchedChildren[j]).id

\* Three methods against one: the two unmatched methods of self stand in
\* the child reports against their insertion order.
C26_Witness ==
    /\ pc = "class_compared"
    /\ Len(self_methods) = 3
    /\ Len(other_methods) = 1
    /\ Len(UnmatchedChildren) = 2
    /\ UnmatchedMethod(UnmatchedChildren[1]).id
           > UnmatchedMethod(UnmatchedChildren[2]).id


\* compare_parts called again on the collections as they now stand.
ComparedAgain ==
    ComparePartsList(cp_self[1], cp_other[1],
                     [i \in 1..Len(self_attr_val) |->
                         BlockEntity(self_attr_val[i])],
                     [i \in 1..Len(other_attr_val) |->
                         BlockEntity(other_attr_val[i])],
                     BuildMatrix(self_attr_val, other_attr_val, 1, 1),
                     Scan(fast_scan, skip_threshold))

\* C27: a comparison never changes the collections of the compared
\* entities: no step of compare_parts changes self, other or the two
\* attribute collections, so the same elements stand in the same order when
\* it returns, and comparing the same pair again gives the report it
\* returned.
C27_ReadOnlyInputs ==
    /\ [][/\ self_attr_val' = self_attr_val
          /\ other_attr_val' = other_attr_val
          /\ cp_self' = cp_self
          /\ cp_other' = cp_other]_vars
    /\ [](pc = "matched" => report[1] = ComparedAgain)

\* A matching that committed a pair and charged an unmatched element has
\* returned: both sets of unused values are used up, the collections still
\* hold their elements.
C27_Witness ==
    /\ pc = "matched"
    /\ committed # <<>>
    /\ unused_reports # <<>>
    /\ self_unused_vals = {}
    /\ other_unused_vals = {}
    /\ Len(self_attr_val) + Len(other_attr_val) = 3


(***************************************************************************)
(* Specification SpecSchedFair: SpecSched with the scheduling of the       *)
(* processes.  The main process runs its statements one after the other,   *)
(* a pool worker runs the task it took, pool.imap hands over a chunk that  *)
(* is done, and _print_progress wakes up every two seconds: a step of any  *)
(* of them that stays possible is taken.  Nothing obliges a caller to      *)
(* compare two projects by hand afterwards.                                *)
(***************************************************************************)
SpecSchedFair ==
    /\ SpecSched
    /\ WF_vars(Prepare)
    /\ WF_vars(Submit)
    /\ WF_vars(\E c \in 1..Len(chunk_pos) : CompareWrapper(c))
    /\ WF_vars(\E c \in 1..Len(chunk_pos) : CompareReturns(c))
    /\ WF_vars(Collect)
    /\ WF_vars(PrintProgress)
    /\ WF_vars(Return)

\* A step in which a worker starts a comparison.
ComparisonStarted ==
    /\ pc = "collecting"
    /\ \E c \in 1..Len(chunk_pos) : c \notin running /\ c \in running'

\* C28: the total computed up front is the number of pairs enqueued over
\* all partitions; a step adds a token to the progress queue exactly when
\* it starts a comparison, and then one token; the size of the queue never
\* exceeds the total; the observer leaves its loop only at the total, and
\* does leave it once the total is reached (also when it is 0); when no
\* comparison fails, parallel_compare_projects returns.
C28_ObserverTermination ==
    /\ [](queue <= total_comparisons_needed)
    /\ [](pc # "start" /\ type_idx = Len(projects_by_types)
              => total_comparisons_needed = Len(handed))
    /\ [][/\ ComparisonStarted => queue' = queue + 1
          /\ ~ComparisonStarted => queue' = queue]_vars
    /\ [](timer = "exited" => queue = total_comparisons_needed)
    /\ (pc # "start" /\ queue = total_comparisons_needed)
           ~> (timer = "exited")
    /\ (pc = "start" /\ raising = {})
           ~> (pc = "returned" /\ timer = "exited")

\* Three comparisons were enqueued and run, the observer has exited at a
\* queue of three tokens and the call has returned.
C28_Witness ==
    /\ pc = "returned"
    /\ timer = "exited"
    /\ total_comparisons_needed = 3
    /\ queue = 3
    /\ Len(reports) = 3

\* No project at all: the total is 0, the observer exits at once and the
\* call returns an empty list.
C28_WitnessEmpty ==
    /\ pc = "returned"
    /\ projects = <<>>
    /\ timer = "exited"
    /\ total_comparisons_needed = 0
    /\ reports = <<>>


\* The pairs of all partitions in the order they are enumerated: partition
\* by partition, the template pairs and then the pairs of submissions.
RECURSIVE EnumeratedPairs(_)
EnumeratedPairs(k) ==
    IF k > Len(projects_by_types) THEN <<>>
    ELSE GenerateComparisons(
             FilterTemplate(projects, projects_by_types[k].members, FALSE),
             FilterTemplate(projects, projects_by_types[k].members, TRUE))
         \o EnumeratedPairs(k + 1)

C29_WitnessReturned ==
    /\ pc = "returned"
    /\ cpu_count = 2
    /\ Len(reports) = 3
    /\ reports = EnumeratedPairs(1)


(***************************************************************************)
(* Specification SpecTypes: the last loop of JavaProject.__init__, which   *)
(* resolves every user-defined type to the non-user-defined types of the   *)
(* fields of its class.  All classes are in one package.                   *)
(***************************************************************************)
\* Most classes of a sampled project, and most fields of a class.
MaxClasses == 3
MaxFields == 2

\* The interpreter's limit on nested calls, scaled down: a resolution that
\* meets no class twice nests one call per class name at most.
RecursionLimit == 5

ClassNames == {"A", "B"}

FieldTypeNames == {"int"} \cup ClassNames

\* A class as type resolution reads it: its name and the type names of its
\* fields.
ScannedClasses ==
    { [name |-> n, variables |-> v] :
        n \in ClassNames, v \in SeqsUpTo(FieldTypeNames, MaxFields) }

\* JavaFile.__init__ enters a key for every class it loads; a dict keeps its
\* keys in the order they were first entered.
RECURSIVE UserTypeKeys(_, _, _)
UserTypeKeys(cls, i, keys) ==
    IF i > Len(cls) THEN keys
    ELSE UserTypeKeys(cls, i + 1,
                      IF cls[i].name \in Range(keys) THEN keys
                      ELSE Append(keys, cls[i].name))

InitTypes ==
    /\ pc = "building"
    /\ fast_scan = FALSE
    /\ skip_threshold = 50
    /\ IdleReport
    /\ IdleParts
    /\ IdleCompare
    /\ IdleSched
    /\ IdleEntity
    /\ IdleMain
    /\ IdleBlocks
    /\ IdleClass
    /\ project_classes \in SeqsUpTo(ScannedClasses, MaxClasses)
    /\ user_types = [k \in 1..Len(UserTypeKeys(project_classes, 1, <<>>)) |->
                        [name |-> UserTypeKeys(project_classes, 1, <<>>)[k],
                         types |-> <<>>]]
    /\ resolve_idx = 0
    /\ stack = <<>>

frameTypes == <<fast_scan, skip_threshold, reportVars, partsVars, compareVars,
                schedVars, entityVars, mainVars, blocksVars, classVars,
                project_classes>>

\* JavaType.is_user_defined: the type is a key of user_types
IsUserDefined(type_name) == \E k \in 1..Len(user_types) :
                                user_types[k].name = type_name

\* JavaProject.get_class: the position of the one class of that name, 0 for
\* None (the classes of a name share the package, which cannot tell them
\* apart).
GetClass(class_name) ==
    LET found_classes ==
            { i \in 1..Len(project_classes) :
                project_classes[i].name = class_name }
    IN  IF Cardinality(found_classes) = 1
        THEN CHOOSE i \in found_classes : TRUE
        ELSE 0

Frame(cls, var, ans) == [cls |-> cls, var |-> var, ans |-> ans]

\* for t in self.user_types.keys(): type_class = self.get_class(...); the
\* call of get_non_user_defined_types when there is such a class
ResolveNext ==
    /\ pc = "building"
    /\ stack = <<>>
    /\ resolve_idx < Len(user_types)
    /\ LET type_class == GetClass(user_types[resolve_idx + 1].name)
       IN  IF type_class # 0
           THEN /\ stack' = <<Frame(type_class, 1, <<>>)>>
                /\ UNCHANGED resolve_idx
           ELSE /\ resolve_idx' = resolve_idx + 1
                /\ UNCHANGED stack
    /\ UNCHANGED <<pc, frameTypes, user_types>>

Top == stack[Len(stack)]

SetTop(frame) == [stack EXCEPT ![Len(stack)] = frame]

\* One turn of the loop of get_non_user_defined_types: the field is kept,
\* passed over (the class's own type), or its class is asked in a nested
\* call; get_class may give None, and the nesting may reach the limit.
VisitVariable ==
    /\ pc = "building"
    /\ stack # <<>>
    /\ Top.var <= Len(project_classes[Top.cls].variables)
    /\ LET type_name == project_classes[Top.cls].variables[Top.var]
       IN  IF ~IsUserDefined(type_name)
           THEN /\ stack' = SetTop(Frame(Top.cls, Top.var + 1,
                                         Append(Top.ans, type_name)))
                /\ UNCHANGED pc
           ELSE IF type_name = project_classes[Top.cls].name
           THEN /\ stack' = SetTop(Frame(Top.cls, Top.var + 1, Top.ans))
                /\ UNCHANGED pc
           ELSE IF GetClass(type_name) = 0
           THEN /\ pc' = "AttributeError"
                /\ UNCHANGED stack
           ELSE IF Len(stack) >= RecursionLimit
           THEN /\ pc' = "RecursionError"
                /\ UNCHANGED stack
           ELSE /\ stack' = Append(stack, Frame(GetClass(type_name), 1, <<>>))
                /\ UNCHANGED pc
    /\ UNCHANGED <<frameTypes, user_types, resolve_idx>>

\* return ans: to the caller's ans.extend(...), or to the update of
\* user_types in JavaProject.__init__
ReturnTypes ==
    /\ pc = "building"
    /\ stack # <<>>
    /\ Top.var > Len(project_classes[Top.cls].variables)
    /\ IF Len(stack) = 1
       THEN /\ user_types' = [user_types EXCEPT ![resolve_idx + 1].types =
                                                    Top.ans]
            /\ resolve_idx' = resolve_idx + 1
            /\ stack' = <<>>
       ELSE /\ stack' =
                   [SubSeq(stack, 1, Len(stack) - 1)
                       EXCEPT ![Len(stack) - 1] =
                           Frame(@.cls, @.var + 1, @.ans \o Top.ans)]
            /\ UNCHANGED <<user_types, resolve_idx>>
    /\ UNCHANGED <<pc, frameTypes>>

\* The loop is over: the project is built.
ProjectBuilt ==
    /\ pc = "building"
    /\ stack = <<>>
    /\ resolve_idx = Len(user_types)
    /\ pc' = "built"
    /\ UNCHANGED <<frameTypes, user_types, resolve_idx, stack>>

NextTypes ==
    \/ ResolveNext
    \/ VisitVariable
    \/ ReturnTypes
    \/ ProjectBuilt

SpecTypes == InitTypes /\ [][NextTypes]_vars

\* C30: building a Java project resolves every user-defined type in
\* finitely many steps and without error, also when a class has a field of
\* its own type, when classes have fields of each other's types, and when
\* the class of a field's type cannot be told.  Refuted for the last two.
C30_ResolutionWithoutError ==
    pc \notin {"RecursionError", "AttributeError"}

\* class A { B b; } and class B { A a; }: the calls nest to the limit.
C30_Witness ==
    /\ pc = "RecursionError"
    /\ project_classes = << [name |-> "A", variables |-> <<"B">>],
                            [name |-> "B", variables |-> <<"A">>] >>

\* class A { B b; } and two classes B: get_class gives None to the nested
\* call.
C30_WitnessUnresolved ==
    /\ pc = "AttributeError"
    /\ project_classes = << [name |-> "A", variables |-> <<"B">>],
                            [name |-> "B", variables |-> <<"int">>],
                            [name |-> "B", variables |-> <<"int">>] >>

\* A field of the class's own type is passed over: without a field of
\* another user-defined type the resolution ends with the field types that
\* are not user-defined, in order.
C30_OwnTypeTerminates ==
    /\ pc = "built"
    /\ project_classes = << [name |-> "A", variables |-> <<"A", "int">>] >>
    /\ user_types = << [name |-> "A", types |-> <<"int">>] >>

=============================================================================
